---------------------------- MODULE Spec2Model ----------------------------
(***************************************************************************)
(* The versioned persistence engine of symbiosis-memory-system-v3:         *)
(*   src/src/core/memory_db.py        MemoryDB (records + Version Ledger)  *)
(*   src/src/services/versioning.py   VersioningService                    *)
(*   src/src/services/persistence.py  PersistenceService (write queue)     *)
(*                                                                         *)
(* One MemoryDB owns one sqlite3 connection (check_same_thread=False), so  *)
(* every thread works on the same connection and therefore on the same     *)
(* open transaction.  db is the database as that connection sees it        *)
(* (uncommitted statements included); committed is what a rollback goes    *)
(* back to and what a commit replaces.                                     *)
(***************************************************************************)
EXTENDS Integers, Sequences, FiniteSets, TLC

VARIABLES
    db,          \* [memories, versions, seq]: the tables as the connection sees them
    committed,   \* the same tables as of the last commit
    last,        \* the last completed call and its outcome
    hist,        \* per record id: what has been applied to it so far
    pc,          \* per thread: the statement it is at
    loc,         \* per thread: its local variables
    queue,       \* PersistenceService._queue (a queue.Queue without maxsize)
    svc,         \* PersistenceService: _running and its counters
    qhist,       \* the items queue_save has accepted so far, in order
    env,         \* outside the tables: backup files, MemoryDB.conn open or not
    store        \* memory.db of src/services: its tables versions and sessions

dbvars == <<db, committed>>
threadvars == <<pc, loc>>
svcvars == <<queue, svc, qhist>>
vars == <<db, committed, last, hist, pc, loc, queue, svc, qhist, env, store>>

(***************************************************************************)
(* Bounds of the model.                                                    *)
(***************************************************************************)
MaxMemories == 2       \* rows ever inserted into memories
MaxVersionRows == 3    \* rows ever inserted into versions

(***************************************************************************)
(* Payloads: content is a Dict[str, Any]; here a document over one key.    *)
(* The empty document is the falsy content save_memory rejects.            *)
(***************************************************************************)
KeyOrder == <<"a">>
Keys == {KeyOrder[i] : i \in DOMAIN KeyOrder}
Vals == {"x", "y"}
Docs == UNION {[ks -> Vals] : ks \in SUBSET Keys}
EmptyDoc == <<>>

\* json.dumps(content): the document written out as its key/value pairs.
json_dumps(doc) ==
    LET present == SelectSeq(KeyOrder, LAMBDA k : k \in DOMAIN doc)
    IN  [i \in DOMAIN present |-> <<present[i], doc[present[i]]>>]

\* json.loads(text): the document read back from its key/value pairs.
json_loads(text) ==
    [k \in {text[i][1] : i \in DOMAIN text} |->
        text[CHOOSE i \in DOMAIN text : text[i][1] = k][2]]

(***************************************************************************)
(* The schema (create_tables).                                             *)
(***************************************************************************)
MemoryTypes == {"session", "daily", "longterm"}
EmptyDB == [memories |-> {}, versions |-> {}, backups |-> {},
            seq |-> [memories |-> 0, versions |-> 0, backups |-> 0]]

MemoryRows(d, memory_id) == {m \in d.memories : m.id = memory_id}
LiveRows(d, memory_id) == {m \in MemoryRows(d, memory_id) : m.is_deleted = 0}
VersionRows(d, memory_id) == {v \in d.versions : v.memory_id = memory_id}

\* INSERT INTO memories (...): AUTOINCREMENT takes the next id of sqlite_sequence.
InsertMemory(d, memory_type, session_id, content_json, importance) ==
    [d EXCEPT !.memories = @ \cup {[id |-> d.seq.memories + 1,
                                    memory_type |-> memory_type,
                                    session_id |-> session_id,
                                    content |-> content_json,
                                    importance |-> importance,
                                    is_deleted |-> 0]},
              !.seq.memories = @ + 1]

\* INSERT INTO versions (...).
InsertVersion(d, memory_id, version, content_json, changed_by) ==
    [d EXCEPT !.versions = @ \cup {[id |-> d.seq.versions + 1,
                                    memory_id |-> memory_id,
                                    version |-> version,
                                    content |-> content_json,
                                    changed_by |-> changed_by]},
              !.seq.versions = @ + 1]

\* UPDATE memories SET content = ? WHERE id = ? AND is_deleted = 0.
UpdateContent(d, memory_id, content_json) ==
    [d EXCEPT !.memories =
        {IF m.id = memory_id /\ m.is_deleted = 0
            THEN [m EXCEPT !.content = content_json] ELSE m : m \in @}]

\* SELECT MAX(version) FROM versions WHERE memory_id = ?  (NULL reads as 0).
MaxVersion(d, memory_id) ==
    LET vs == {v.version : v \in VersionRows(d, memory_id)}
    IN  IF vs = {} THEN 0 ELSE CHOOSE x \in vs : \A y \in vs : y <= x

\* Outside the tables: no backup file yet, the connection open (connect()).
\* stamp is the second the newest backup file name was made from.
\* restores and writes count the restores that succeeded and the changes
\* made to the records between backups.
NewEnv == [files |-> <<>>, stamp |-> 0, conn |-> "open", restores |-> 0,
           writes |-> 0]

\* if not self.conn: self.connect()
Connected(e) == [e EXCEPT !.conn = "open"]

\* memory.db before any service of src/services has opened it: no table yet.
\* path is the db_path every service connects to for each call; clock counts
\* the datetime.now() readings that were stored.
NewStore == [path |-> "file", tables |-> {}, versions |-> {}, sessions |-> {},
             seq |-> [versions |-> 0], clock |-> 0]

\* What a call hands back: the tables after it, the exception it raised
\* ("none" when it returned), its truth value and the id it returned.
Returned(d, ok, id) == [db |-> d, raised |-> "none", ok |-> ok, id |-> id]
Raised(d, exc) == [db |-> d, raised |-> exc, ok |-> FALSE, id |-> 0]

(***************************************************************************)
(* MemoryDB.                                                               *)
(***************************************************************************)
\* The three checks save_memory makes before it opens its transaction.
Rejects(memory_type, content, importance) ==
    \/ content = EmptyDoc
    \/ memory_type \notin MemoryTypes
    \/ importance < 0 \/ importance > 10

\* (bug variant: the three checks are skipped)
save_memory_unvalidated(d, memory_type, content, session_id, importance) ==
    LET content_json == json_dumps(content)
        d1 == InsertMemory(d, memory_type, session_id, content_json, importance)
        memory_id == d1.seq.memories
    IN  Returned(InsertVersion(d1, memory_id, 1, content_json, "system"),
                 TRUE, memory_id)

\* (bug variant: the initial ledger entry is not written)
save_memory_without_version(d, memory_type, content, session_id, importance) ==
    IF Rejects(memory_type, content, importance) THEN Raised(d, "ValueError")
    ELSE LET d1 == InsertMemory(d, memory_type, session_id, json_dumps(content),
                                importance)
         IN  Returned(d1, TRUE, d1.seq.memories)

save_memory(d, memory_type, content, session_id, importance) ==
    IF Rejects(memory_type, content, importance) THEN Raised(d, "ValueError")
    ELSE LET content_json == json_dumps(content)
             d1 == InsertMemory(d, memory_type, session_id, content_json, importance)
             memory_id == d1.seq.memories
         IN  Returned(InsertVersion(d1, memory_id, 1, content_json, "system"),
                      TRUE, memory_id)

get_memory(d, memory_id) ==
    IF LiveRows(d, memory_id) = {} THEN [found |-> FALSE, content |-> EmptyDoc]
    ELSE LET row == CHOOSE m \in LiveRows(d, memory_id) : TRUE
         IN  [found |-> TRUE, content |-> json_loads(row.content)]

\* get_memories() without filters: the live rows (their order and the
\* limit/offset window are not modelled).
get_memories(d) == {m.id : m \in {r \in d.memories : r.is_deleted = 0}}

\* (bug variant: rowcount is not looked at, the ledger entry is appended anyway)
update_memory_ignoring_rowcount(d, memory_id, content, changed_by) ==
    IF content = EmptyDoc THEN Raised(d, "ValueError")
    ELSE Returned(InsertVersion(UpdateContent(d, memory_id, json_dumps(content)),
                                memory_id, MaxVersion(d, memory_id) + 1,
                                json_dumps(content), changed_by), TRUE, 0)

\* (bug variant: the newest ledger entry is rewritten instead of a new one appended)
update_memory_rewriting_version(d, memory_id, content, changed_by) ==
    IF content = EmptyDoc THEN Raised(d, "ValueError")
    ELSE IF LiveRows(d, memory_id) = {} THEN Returned(d, FALSE, 0)
    ELSE LET d1 == UpdateContent(d, memory_id, json_dumps(content))
         IN  Returned([d1 EXCEPT !.versions =
                          {IF v.memory_id = memory_id
                              /\ v.version = MaxVersion(d, memory_id)
                           THEN [v EXCEPT !.content = json_dumps(content),
                                          !.changed_by = changed_by]
                           ELSE v : v \in d.versions}],
                      TRUE, 0)

\* (bug variant: the ledger entry is appended but the record row keeps its content)
update_memory_keeping_content(d, memory_id, content, changed_by) ==
    IF content = EmptyDoc THEN Raised(d, "ValueError")
    ELSE IF LiveRows(d, memory_id) = {} THEN Returned(d, FALSE, 0)
    ELSE Returned(InsertVersion(d, memory_id, MaxVersion(d, memory_id) + 1,
                                json_dumps(content), changed_by), TRUE, 0)

\* (bug variant: the current maximum is reused instead of incremented)
update_memory_reusing_version(d, memory_id, content, changed_by) ==
    IF content = EmptyDoc THEN Raised(d, "ValueError")
    ELSE IF LiveRows(d, memory_id) = {} THEN Returned(d, FALSE, 0)
    ELSE Returned(InsertVersion(UpdateContent(d, memory_id, json_dumps(content)),
                                memory_id, MaxVersion(d, memory_id),
                                json_dumps(content), changed_by), TRUE, 0)

update_memory(d, memory_id, content, changed_by) ==
    IF content = EmptyDoc THEN Raised(d, "ValueError")
    ELSE LET new_version == MaxVersion(d, memory_id) + 1
             content_json == json_dumps(content)
         IN  IF LiveRows(d, memory_id) = {} THEN Returned(d, FALSE, 0)
             ELSE Returned(InsertVersion(UpdateContent(d, memory_id, content_json),
                                         memory_id, new_version, content_json,
                                         changed_by),
                           TRUE, 0)

\* get_versions: ORDER BY version ASC (rows of equal version in id order).
RECURSIVE SortVersions(_)
SortVersions(rows) ==
    IF rows = {} THEN <<>>
    ELSE LET first == CHOOSE v \in rows : \A w \in rows :
                          \/ v.version < w.version
                          \/ v.version = w.version /\ v.id <= w.id
         IN  <<first>> \o SortVersions(rows \ {first})

get_versions(d, memory_id) ==
    LET rows == SortVersions(VersionRows(d, memory_id))
    IN  [i \in DOMAIN rows |-> [rows[i] EXCEPT !.content = json_loads(@)]]

restore_version(d, version_id) ==
    LET rows == {v \in d.versions : v.id = version_id}
    IN  IF rows = {} THEN Returned(d, FALSE, 0)
        ELSE LET row == CHOOSE v \in rows : TRUE
             IN  update_memory(d, row.memory_id, json_loads(row.content), "system")

\* The soft branch reads the local name cursor, which only the permanent
\* branch binds: it raises UnboundLocalError before it touches the tables.
delete_memory(d, memory_id, permanent) ==
    IF permanent
    THEN Returned([d EXCEPT !.versions = @ \ VersionRows(d, memory_id),
                            !.memories = @ \ MemoryRows(d, memory_id)],
                  MemoryRows(d, memory_id) # {}, 0)
    ELSE Raised(d, "UnboundLocalError")

(***************************************************************************)
(* Backups.  The catalog is the table backups of the same database file;   *)
(* a backup file is a copy of that file, named after the second it was     *)
(* made in.  MemoryDB and BackupService both write to data/backups.        *)
(***************************************************************************)
BackupColumns == {"id", "backup_type", "file_path", "size_bytes", "checksum",
                  "status", "created_at"}
BackupTypes == {"scheduled", "manual", "auto"}

\* What a backup call hands back: tables, environment, exception, truth
\* value, id.
Outcome(d, e, raised, ok, id) ==
    [db |-> d, env |-> e, raised |-> raised, ok |-> ok, id |-> id]

\* _generate_backup_filename and os.path.join: "backup_<timestamp>.db".
BackupPath(stamp) == <<"b", "a", "c", "k", "u", "p", "_", stamp, ".", "d", "b">>

\* shutil.copy2(db_path, backup_path): the file holds the committed tables.
CopyOf(d) == [data |-> d, damaged |-> FALSE]
\* The database a file is opened as (nothing readable in a damaged one).
ReadDatabase(file) == IF file.damaged THEN EmptyDB ELSE file.data
\* hashlib.md5 over the bytes of the file.
md5(file) == [digest_of |-> file]
\* os.path.getsize: grows with the rows the file holds.
getsize(file) ==
    Cardinality(file.data.memories) + Cardinality(file.data.versions)
        + Cardinality(file.data.backups)

WriteFile(e, path, file) ==
    [e EXCEPT !.files = [q \in DOMAIN e.files \cup {path} |->
                            IF q = path THEN file ELSE e.files[q]]]

BackupRows(d, backup_id) == {b \in d.backups : b.id = backup_id}

\* INSERT INTO backups (columns) VALUES (...): fails for a column the table
\* does not have and for a backup_type the CHECK constraint refuses.
\* created_at is the column's default, CURRENT_TIMESTAMP, to the second.
InsertBackup(d, columns, backup_type, file_path, size_bytes, checksum, status, created_at) ==
    IF ~(columns \subseteq BackupColumns) THEN Raised(d, "OperationalError")
    ELSE IF backup_type \notin BackupTypes THEN Raised(d, "IntegrityError")
    ELSE Returned([d EXCEPT !.backups = @ \cup {[id |-> d.seq.backups + 1,
                                                 backup_type |-> backup_type,
                                                 file_path |-> file_path,
                                                 size_bytes |-> size_bytes,
                                                 checksum |-> checksum,
                                                 status |-> status,
                                                 created_at |-> created_at]},
                            !.seq.backups = @ + 1],
                  TRUE, d.seq.backups + 1)

\* MemoryDB.create_backup: copy the file, checksum, size, catalog row, commit.
db_create_backup(d, e, backup_type, stamp, copy_fails) ==
    IF copy_fails THEN Outcome(d, Connected(e), "OSError", FALSE, 0)
    ELSE LET backup_path == BackupPath(stamp)
             file == CopyOf(d)
             e1 == [WriteFile(Connected(e), backup_path, file) EXCEPT !.stamp = stamp]
             r == InsertBackup(d, {"backup_type", "file_path", "size_bytes",
                                   "checksum", "status"},
                               backup_type, backup_path, getsize(file), md5(file),
                               "completed", stamp)
         IN  Outcome(r.db, e1, r.raised, r.ok, r.id)

\* BackupService.create_backup: commit, copy, checksum, size, catalog row;
\* on any exception a row with status failed is tried, then the exception
\* is raised again.  Both INSERTs name the column description.
create_backup(d, e, backup_type, stamp, copy_fails) ==
    LET backup_path == BackupPath(stamp)
        file == CopyOf(d)
        e1 == IF copy_fails THEN e
              ELSE [WriteFile(e, backup_path, file) EXCEPT !.stamp = stamp]
        r == IF copy_fails THEN Raised(d, "OSError")
             ELSE IF e.conn # "open" THEN Raised(d, "AttributeError")
             ELSE InsertBackup(d, {"backup_type", "file_path", "size_bytes",
                                   "checksum", "status", "description"},
                               backup_type, backup_path, getsize(file), md5(file),
                               "completed", stamp)
        failed == IF e.conn # "open" THEN Raised(d, "AttributeError")
                  ELSE InsertBackup(d, {"backup_type", "file_path", "status",
                                        "description"},
                                    backup_type, backup_path, 0, "", "failed",
                                    stamp)
    IN  IF r.raised = "none" THEN Outcome(r.db, e1, "none", TRUE, r.id)
        ELSE Outcome(failed.db, e1, r.raised, FALSE, 0)

\* BackupService.verify_backup: valid and the reason when not.
verify_backup(d, e, backup_id) ==
    IF e.conn # "open" THEN [valid |-> FALSE, error |-> "AttributeError"]
    ELSE IF BackupRows(d, backup_id) = {}
    THEN [valid |-> FALSE, error |-> "backup does not exist"]
    ELSE LET row == CHOOSE b \in BackupRows(d, backup_id) : TRUE
         IN  IF row.file_path \notin DOMAIN e.files
             THEN [valid |-> FALSE, error |-> "file does not exist"]
             ELSE IF md5(e.files[row.file_path]) = row.checksum
             THEN [valid |-> TRUE, error |-> "none"]
             ELSE [valid |-> FALSE, error |-> "checksum mismatch"]

\* BackupService.restore_backup: the three names are unpacked from row[0],
\* the file path, which works only for a path of exactly three characters
\* (and then names no existing file).
restore_backup(d, e, backup_id) ==
    IF e.conn # "open" THEN Outcome(d, e, "AttributeError", FALSE, 0)
    ELSE IF BackupRows(d, backup_id) = {} THEN Outcome(d, e, "none", FALSE, 0)
    ELSE LET row == CHOOSE b \in BackupRows(d, backup_id) : TRUE
         IN  IF Len(row.file_path) # 3 THEN Outcome(d, e, "ValueError", FALSE, 0)
             ELSE Outcome(d, e, "none", FALSE, 0)

\* (bug variant: the file is copied back without comparing checksums)
db_restore_backup_unverified(d, e, backup_id, copy_fails) ==
    IF BackupRows(d, backup_id) = {} THEN Outcome(d, Connected(e), "none", FALSE, 0)
    ELSE LET row == CHOOSE b \in BackupRows(d, backup_id) : TRUE
         IN  IF row.file_path \notin DOMAIN e.files
             THEN Outcome(d, Connected(e), "none", FALSE, 0)
             ELSE IF copy_fails
             THEN Outcome(d, [e EXCEPT !.conn = "closed"], "OSError", FALSE, 0)
             ELSE Outcome(ReadDatabase(e.files[row.file_path]), Connected(e),
                          "none", TRUE, 0)

\* MemoryDB.restore_backup: unknown id, missing file and checksum mismatch
\* return False; otherwise close, copy the file over db_path, connect.
db_restore_backup(d, e, backup_id, copy_fails) ==
    IF BackupRows(d, backup_id) = {} THEN Outcome(d, Connected(e), "none", FALSE, 0)
    ELSE LET row == CHOOSE b \in BackupRows(d, backup_id) : TRUE
         IN  IF row.file_path \notin DOMAIN e.files
             THEN Outcome(d, Connected(e), "none", FALSE, 0)
             ELSE IF md5(e.files[row.file_path]) # row.checksum
             THEN Outcome(d, Connected(e), "none", FALSE, 0)
             ELSE IF copy_fails
             THEN Outcome(d, [e EXCEPT !.conn = "closed"], "OSError", FALSE, 0)
             ELSE Outcome(ReadDatabase(e.files[row.file_path]), Connected(e),
                          "none", TRUE, 0)

\* (bug variant: ORDER BY created_at ASC, the oldest rows are kept)
OlderRows(rows, b) ==
    {c \in rows : \/ c.created_at < b.created_at
                  \/ (c.created_at = b.created_at /\ c.id < b.id)}

\* ORDER BY created_at DESC: the rows that come before row b.  Rows of one
\* second come out in the order of their ids (the order sqlite scans in).
NewerRows(rows, b) ==
    {c \in rows : \/ c.created_at > b.created_at
                  \/ (c.created_at = b.created_at /\ c.id < b.id)}

\* BackupService.cleanup_old_backups(keep_count, backup_type): the rows (of
\* the type, when one is given; None is "") outside the first keep_count in
\* descending created_at are taken; for each its file is unlinked when it
\* exists and its row deleted.  A row whose unlink raises stays and is not
\* counted.  LIMIT with a negative number limits nothing.
cleanup_old_backups(d, e, keep_count, backup_type, unlink_fails) ==
    IF e.conn # "open"
    THEN [db |-> d, env |-> e, raised |-> "AttributeError", deleted |-> 0]
    ELSE LET scope == IF backup_type = "" THEN d.backups
                      ELSE {b \in d.backups : b.backup_type = backup_type}
             kept == {b \in scope : \/ keep_count < 0
                                    \/ Cardinality(NewerRows(scope, b)) < keep_count}
             to_delete == scope \ kept
             gone == {b \in to_delete :
                         ~(unlink_fails /\ b.file_path \in DOMAIN e.files)}
             unlinked == {b.file_path : b \in gone}
         IN  [db |-> [d EXCEPT !.backups = @ \ gone],
              env |-> [e EXCEPT !.files = [q \in DOMAIN e.files \ unlinked |->
                                              e.files[q]]],
              raised |-> "none",
              deleted |-> Cardinality(gone)]

(***************************************************************************)
(* VersioningService.                                                      *)
(***************************************************************************)
\* (bug variant: the newest entry is restored, whatever version was asked for)
rollback_to_latest(d, memory_id, version) ==
    LET versions == get_versions(d, memory_id)
        hits == {i \in DOMAIN versions : versions[i].version = version}
    IN  IF hits = {} THEN Returned(d, FALSE, 0)
        ELSE restore_version(d, versions[Len(versions)].id)

\* (bug variant: a version number the record does not have falls back to
\* the record's newest entry)
rollback_to_version_or_newest(d, memory_id, version) ==
    LET versions == get_versions(d, memory_id)
        hits == {i \in DOMAIN versions : versions[i].version = version}
    IN  IF versions = <<>> THEN Returned(d, FALSE, 0)
        ELSE IF hits = {} THEN restore_version(d, versions[Len(versions)].id)
        ELSE restore_version(d, versions[CHOOSE i \in hits : \A j \in hits : i <= j].id)

rollback_to_version(d, memory_id, version) ==
    LET versions == get_versions(d, memory_id)
        hits == {i \in DOMAIN versions : versions[i].version = version}
    IN  IF hits = {} THEN Returned(d, FALSE, 0)
        ELSE LET target == versions[CHOOSE i \in hits : \A j \in hits : i <= j]
             IN  restore_version(d, target.id)

(***************************************************************************)
(* Calls made one after another on one thread: each call runs to its end   *)
(* (its transaction committed or rolled back) before the next starts.      *)
(* last and hist only observe: no call reads them.                         *)
(***************************************************************************)
NoCall == [op |-> "none", id |-> 0, version |-> 0, content |-> EmptyDoc,
           permanent |-> FALSE, valid |-> FALSE, ok |-> FALSE, raised |-> "none"]

RecordIds == 1..MaxMemories
VersionIds == 1..MaxVersionRows
NoHist == [mutations |-> 0, updates |-> 0, restores |-> 0, purged |-> FALSE,
           content |-> EmptyDoc]

InputTypes == {"session", "longterm", "bogus"}
InputImportances == {-1, 0, 10, 11}
NoSession == 0

\* The inputs the data model calls valid.
ValidInput(memory_type, content, importance) ==
    /\ content # EmptyDoc
    /\ memory_type \in {"session", "daily", "longterm"}
    /\ importance \in 0..10

\* PersistenceService.__init__: nothing queued, not running, counters at zero.
NewService == [running |-> FALSE, error_count |-> 0, flush_count |-> 0,
               total_queues |-> 0, total_saves |-> 0]

NoQueueHist == [accepted |-> <<>>, forced |-> 0]

Init ==
    /\ db = EmptyDB
    /\ committed = EmptyDB
    /\ last = NoCall
    /\ hist = [id \in RecordIds |-> NoHist]
    /\ pc = <<>>
    /\ loc = <<>>
    /\ queue = <<>>
    /\ svc = NewService
    /\ qhist = NoQueueHist
    /\ env = NewEnv
    /\ store = NewStore

SaveMemory(memory_type, content, importance) ==
    LET r == save_memory(db, memory_type, content, NoSession, importance)
    IN  /\ db.seq.memories < MaxMemories
        /\ db.seq.versions < MaxVersionRows
        /\ db' = r.db
        /\ committed' = r.db
        /\ last' = [NoCall EXCEPT !.op = "save_memory", !.id = r.id,
                                  !.content = content,
                                  !.valid = ValidInput(memory_type, content, importance),
                                  !.ok = r.ok, !.raised = r.raised]
        /\ hist' = IF r.ok /\ r.id \in RecordIds
                   THEN [hist EXCEPT ![r.id] = [NoHist EXCEPT !.mutations = 1]]
                   ELSE hist
        /\ env' = Connected(env)
        /\ UNCHANGED <<threadvars, svcvars, store>>

UpdateMemory(memory_id, content) ==
    LET r == update_memory(db, memory_id, content, "user")
    IN  /\ db.seq.versions < MaxVersionRows
        /\ db' = r.db
        /\ committed' = r.db
        /\ last' = [NoCall EXCEPT !.op = "update_memory", !.id = memory_id,
                                  !.content = content, !.ok = r.ok,
                                  !.raised = r.raised]
        /\ hist' = IF r.ok
                   THEN [hist EXCEPT ![memory_id].mutations = @ + 1,
                                     ![memory_id].updates = @ + 1,
                                     ![memory_id].content = content]
                   ELSE hist
        /\ env' = Connected(env)
        /\ UNCHANGED <<threadvars, svcvars, store>>

RestoreVersion(version_id) ==
    LET r == restore_version(db, version_id)
        owner == {v.memory_id : v \in {w \in db.versions : w.id = version_id}}
    IN  /\ db.seq.versions < MaxVersionRows
        /\ db' = r.db
        /\ committed' = r.db
        /\ last' = [NoCall EXCEPT !.op = "restore_version", !.version = version_id,
                                  !.ok = r.ok, !.raised = r.raised]
        /\ hist' = IF r.ok
                   THEN [id \in RecordIds |->
                            IF id \in owner
                            THEN [hist[id] EXCEPT !.mutations = @ + 1,
                                                  !.restores = @ + 1]
                            ELSE hist[id]]
                   ELSE hist
        /\ env' = Connected(env)
        /\ UNCHANGED <<threadvars, svcvars, store>>

RollbackToVersion(memory_id, version) ==
    LET r == rollback_to_version(db, memory_id, version)
    IN  /\ db.seq.versions < MaxVersionRows
        /\ db' = r.db
        /\ committed' = r.db
        /\ last' = [NoCall EXCEPT !.op = "rollback_to_version", !.id = memory_id,
                                  !.version = version, !.ok = r.ok,
                                  !.raised = r.raised]
        /\ hist' = IF r.ok
                   THEN [hist EXCEPT ![memory_id].mutations = @ + 1,
                                     ![memory_id].restores = @ + 1]
                   ELSE hist
        /\ env' = Connected(env)
        /\ UNCHANGED <<threadvars, svcvars, store>>

DeleteMemory(memory_id, permanent) ==
    LET r == delete_memory(db, memory_id, permanent)
    IN  /\ db' = r.db
        /\ committed' = r.db
        /\ last' = [NoCall EXCEPT !.op = "delete_memory", !.id = memory_id,
                                  !.permanent = permanent, !.ok = r.ok,
                                  !.raised = r.raised]
        /\ hist' = IF r.ok /\ permanent
                   THEN [hist EXCEPT ![memory_id].purged = TRUE]
                   ELSE hist
        /\ env' = Connected(env)
        /\ UNCHANGED <<threadvars, svcvars, store>>

CallSaveMemory ==
    \E memory_type \in InputTypes, content \in Docs, importance \in InputImportances :
        SaveMemory(memory_type, content, importance)

CallUpdateMemory ==
    \E memory_id \in RecordIds, content \in Docs : UpdateMemory(memory_id, content)

CallRestoreVersion ==
    \E version_id \in VersionIds : RestoreVersion(version_id)

CallRollbackToVersion ==
    \E memory_id \in RecordIds, version \in VersionIds :
        RollbackToVersion(memory_id, version)

CallDeleteMemory ==
    \E memory_id \in RecordIds, permanent \in BOOLEAN :
        DeleteMemory(memory_id, permanent)

Next ==
    \/ CallSaveMemory
    \/ CallUpdateMemory
    \/ CallRestoreVersion
    \/ CallRollbackToVersion
    \/ CallDeleteMemory

Spec == Init /\ [][Next]_vars

(***************************************************************************)
(* Properties of the Record Store and the Version Ledger (Spec).           *)
(***************************************************************************)
VersionNumbers(d, memory_id) == {v.version : v \in VersionRows(d, memory_id)}
VersionContent(d, memory_id, version) ==
    json_loads((CHOOSE v \in VersionRows(d, memory_id) : v.version = version).content)

\* C1: a record created by save_memory and then changed only by N successful
\* update_memory calls has exactly N+1 ledger entries, numbered 1..N+1 in
\* ascending order, and its current content is that of the last update.
C1_UpdatesAppendVersions ==
    \A id \in RecordIds :
        (hist[id].mutations > 0 /\ hist[id].restores = 0 /\ ~hist[id].purged) =>
            LET versions == get_versions(db, id)
            IN  /\ Len(versions) = hist[id].updates + 1
                /\ \A i \in DOMAIN versions : versions[i].version = i
                /\ hist[id].updates > 0 =>
                       /\ get_memory(db, id).found
                       /\ get_memory(db, id).content = hist[id].content

C1_Witness ==
    \E id \in RecordIds :
        /\ hist[id].updates >= 2 /\ hist[id].restores = 0 /\ ~hist[id].purged
        /\ Len(get_versions(db, id)) = 3
        /\ get_versions(db, id)[2].content # get_versions(db, id)[3].content

\* C2: save_memory with valid input succeeds, get_memory on the returned id
\* gives back the submitted content, and the ledger holds exactly one entry
\* for the record, numbered 1, with that content.
C2_CreateThenRead ==
    (last.op = "save_memory" /\ last.valid) =>
        /\ last.ok
        /\ get_memory(db, last.id) = [found |-> TRUE, content |-> last.content]
        /\ Len(get_versions(db, last.id)) = 1
        /\ get_versions(db, last.id)[1].version = 1
        /\ get_versions(db, last.id)[1].content = last.content

C2_Witness ==
    /\ last.op = "save_memory" /\ last.valid /\ last.ok
    /\ last.id = 2
    /\ get_memory(db, 1).found
    /\ get_memory(db, 1).content # get_memory(db, 2).content

\* C3: rollback_to_version(id, v) on a live record that has a version v
\* succeeds, appends exactly one ledger entry numbered (previous max)+1 with
\* the content of version v, leaves every earlier entry as it was and makes
\* the record's current content that of version v.
C3_RollbackAppendsNewVersion ==
    [][\A id \in RecordIds, v \in VersionIds :
        (/\ last'.op = "rollback_to_version" /\ last'.id = id /\ last'.version = v
         /\ RollbackToVersion(id, v)
         /\ LiveRows(db, id) # {}
         /\ v \in VersionNumbers(db, id)) =>
            /\ last'.ok
            /\ MaxVersion(db', id) = MaxVersion(db, id) + 1
            /\ db.versions \subseteq db'.versions
            /\ \E new \in db'.versions :
                   /\ db'.versions \ db.versions = {new}
                   /\ new.memory_id = id
                   /\ new.version = MaxVersion(db, id) + 1
                   /\ json_loads(new.content) = VersionContent(db, id, v)
            /\ get_memory(db', id).found
            /\ get_memory(db', id).content = VersionContent(db, id, v)]_vars

C3_Witness ==
    /\ last.op = "rollback_to_version" /\ last.ok
    /\ MaxVersion(db, last.id) = 3
    /\ last.version = 1
    /\ VersionContent(db, last.id, 3) = VersionContent(db, last.id, 1)
    /\ VersionContent(db, last.id, 3) # VersionContent(db, last.id, 2)
    /\ get_memory(db, last.id).content = VersionContent(db, last.id, 1)

\* C4: whatever save_memory, update_memory, restore_version,
\* rollback_to_version and soft delete_memory calls were made, the version
\* numbers of a record are 1..N without gap or duplicate, N being the number
\* of successful mutations (creation included) applied to it.
C4_VersionsGapFree ==
    \A id \in RecordIds :
        ~hist[id].purged =>
            /\ VersionNumbers(db, id) = 1..hist[id].mutations
            /\ Cardinality(VersionRows(db, id)) = hist[id].mutations

C4_Witness ==
    \E id \in RecordIds :
        /\ ~hist[id].purged
        /\ hist[id].updates > 0 /\ hist[id].restores > 0
        /\ hist[id].mutations = 3
        /\ last.op = "delete_memory" /\ ~last.permanent /\ last.id = id

\* C6: a soft delete_memory of a live record succeeds, hides the record from
\* get_memory and get_memories and keeps its versions; a permanent delete
\* removes the record and all its versions; neither touches another record
\* or its versions.
C6_DeleteSemantics ==
    [][\A id \in RecordIds, permanent \in BOOLEAN :
        (/\ last'.op = "delete_memory" /\ last'.id = id /\ last'.permanent = permanent
         /\ DeleteMemory(id, permanent)
         /\ LiveRows(db, id) # {}) =>
            /\ last'.ok
            /\ ~get_memory(db', id).found
            /\ id \notin get_memories(db')
            /\ IF permanent
               THEN MemoryRows(db', id) = {} /\ VersionRows(db', id) = {}
               ELSE VersionRows(db', id) = VersionRows(db, id)
            /\ \A other \in RecordIds \ {id} :
                   /\ MemoryRows(db', other) = MemoryRows(db, other)
                   /\ VersionRows(db', other) = VersionRows(db, other)]_vars

\* C15: save_memory with invalid input (empty content, kind outside session,
\* daily, longterm, importance outside 0..10) raises the validation error and
\* inserts nothing: records and ledger are unchanged, so every stored record
\* has a valid kind and an importance in 0..10.
C15_InvalidSaveInsertsNothing ==
    /\ [](\A m \in db.memories :
             /\ m.memory_type \in {"session", "daily", "longterm"}
             /\ m.importance \in 0..10
             /\ json_loads(m.content) # EmptyDoc)
    /\ [][(last'.op = "save_memory" /\ last' # last /\ ~last'.valid) =>
              /\ last'.raised = "ValueError"
              /\ ~last'.ok
              /\ db' = db
              /\ committed' = committed]_vars

C15_Witness ==
    /\ last.op = "save_memory" /\ ~last.valid
    /\ last.raised = "ValueError"
    /\ last.content # EmptyDoc
    /\ Cardinality(db.memories) = 1
    /\ Cardinality(db.versions) = 2

\* C16: update_memory on an id without a live record (never created or
\* permanently deleted; a soft-deleted row is skipped by the same
\* is_deleted = 0 test) reports not found, here the return value False, and
\* leaves the records table and the ledger unchanged.
C16_UpdateOfMissingRecord ==
    [][\A id \in RecordIds, content \in Docs :
        (/\ last'.op = "update_memory" /\ last'.id = id /\ last'.content = content
         /\ UpdateMemory(id, content)
         /\ LiveRows(db, id) = {}) =>
            /\ ~last'.ok
            /\ content # EmptyDoc => last'.raised = "none"
            /\ db' = db
            /\ committed' = committed]_vars

C16_Witness ==
    /\ last.op = "update_memory" /\ ~last.ok /\ last.raised = "none"
    /\ hist[last.id].purged
    /\ MemoryRows(db, last.id) = {}
    /\ db.memories # {}
    /\ db.versions # {}

\* C23: ledger entries are create-only.  No call changes or removes a
\* committed entry (its id, owning record, version number, content and
\* changed_by stay as they are, and a new entry gets a new id), except a
\* permanent delete, which removes exactly the entries of the deleted record.
C23_LedgerCreateOnly ==
    [][/\ \A v \in committed.versions :
              v \notin committed'.versions =>
                  /\ DeleteMemory(v.memory_id, TRUE)
                  /\ last'.ok
       /\ \A v \in committed'.versions \ committed.versions :
              \A w \in committed.versions : w.id # v.id
       /\ \A memory_id \in RecordIds :
              (last'.op = "delete_memory" /\ DeleteMemory(memory_id, TRUE)) =>
                  committed'.versions = {v \in committed.versions : v.memory_id # memory_id}]_vars

C23_Witness ==
    /\ last.op = "delete_memory" /\ last.permanent /\ last.ok
    /\ VersionRows(committed, last.id) = {}
    /\ \E id \in RecordIds \ {last.id} :
           /\ hist[id].updates >= 1
           /\ Cardinality(VersionRows(db, id)) = hist[id].mutations
           /\ Cardinality(VersionRows(db, id)) >= 2

\* C33: rollback_to_version(id, v) and restore_version(version_id) report
\* failure (they return False) and leave the records and the whole ledger
\* unchanged when the target version does not exist for that record or the
\* owning record is not live.
C33_FailedRestoreChangesNothing ==
    [][/\ \A id \in RecordIds, v \in VersionIds :
              (/\ last'.op = "rollback_to_version" /\ last'.id = id /\ last'.version = v
               /\ RollbackToVersion(id, v)
               /\ \/ v \notin VersionNumbers(db, id)
                  \/ LiveRows(db, id) = {}) =>
                  /\ ~last'.ok
                  /\ last'.raised = "none"
                  /\ db' = db
                  /\ committed' = committed
       /\ \A version_id \in VersionIds :
              (/\ last'.op = "restore_version" /\ last'.version = version_id
               /\ RestoreVersion(version_id)
               /\ \A w \in db.versions :
                      w.id = version_id => LiveRows(db, w.memory_id) = {}) =>
                  /\ ~last'.ok
                  /\ last'.raised = "none"
                  /\ db' = db
                  /\ committed' = committed]_vars

\* A rollback to a version number the live record does not have was refused,
\* while another record had been permanently deleted.
C33_Witness ==
    /\ last.op = "rollback_to_version" /\ ~last.ok /\ last.raised = "none"
    /\ LiveRows(db, last.id) # {}
    /\ VersionRows(db, last.id) # {}
    /\ last.version \notin VersionNumbers(db, last.id)
    /\ \E id \in RecordIds \ {last.id} : hist[id].purged

(***************************************************************************)
(* update_memory called from two threads that share the MemoryDB: a thread *)
(* can be preempted between any two statements.  The handle is one sqlite3 *)
(* connection opened with check_same_thread=False and MemoryDB takes no    *)
(* lock, so the statements of both threads run in one transaction.         *)
(***************************************************************************)
Updaters == {"t1", "t2"}
Idle == [memory_id |-> 0, content |-> EmptyDoc, new_version |-> 0, rowcount |-> 0]

InitU ==
    /\ db = EmptyDB
    /\ committed = EmptyDB
    /\ last = NoCall
    /\ hist = [id \in RecordIds |-> NoHist]
    /\ pc = [t \in Updaters |-> "idle"]
    /\ loc = [t \in Updaters |-> Idle]
    /\ queue = <<>>
    /\ svc = NewService
    /\ qhist = NoQueueHist
    /\ env = NewEnv
    /\ store = NewStore

\* A record is created (save_memory run to its end by an idle thread).
UCreate(t, content) ==
    LET r == save_memory(db, "longterm", content, NoSession, 0)
    IN  /\ pc[t] = "idle"
        /\ db.seq.memories < MaxMemories
        /\ db' = r.db
        /\ committed' = r.db
        /\ last' = [NoCall EXCEPT !.op = "save_memory", !.id = r.id,
                                  !.content = content, !.ok = r.ok,
                                  !.raised = r.raised]
        /\ UNCHANGED <<hist, threadvars, svcvars, env, store>>

\* update_memory up to the transaction: the emptiness check, then
\* SELECT MAX(version) and new_version = max + 1.
USelectMax(t, memory_id, content) ==
    /\ pc[t] = "idle"
    /\ content # EmptyDoc
    /\ db.seq.versions < MaxVersionRows
    /\ pc' = [pc EXCEPT ![t] = "update"]
    /\ loc' = [loc EXCEPT ![t] = [Idle EXCEPT !.memory_id = memory_id,
                                              !.content = content,
                                              !.new_version =
                                                  MaxVersion(db, memory_id) + 1]]
    /\ UNCHANGED <<dbvars, last, hist, svcvars, env, store>>

\* UPDATE memories ... WHERE id = ? AND is_deleted = 0; rowcount 0 returns
\* False from inside the with block, which commits.
UUpdate(t) ==
    /\ pc[t] = "update"
    /\ db' = UpdateContent(db, loc[t].memory_id, json_dumps(loc[t].content))
    /\ IF LiveRows(db, loc[t].memory_id) = {}
       THEN /\ pc' = [pc EXCEPT ![t] = "commit"]
            /\ loc' = [loc EXCEPT ![t].rowcount = 0]
       ELSE /\ pc' = [pc EXCEPT ![t] = "insert"]
            /\ loc' = [loc EXCEPT ![t].rowcount = 1]
    /\ UNCHANGED <<committed, last, hist, svcvars, env, store>>

\* INSERT INTO versions (memory_id, version, ...) VALUES (?, new_version, ...).
UInsert(t) ==
    /\ pc[t] = "insert"
    /\ db' = InsertVersion(db, loc[t].memory_id, loc[t].new_version,
                           json_dumps(loc[t].content), "user")
    /\ pc' = [pc EXCEPT ![t] = "commit"]
    /\ UNCHANGED <<committed, last, hist, loc, svcvars, env, store>>

\* transaction(): self.conn.commit(), then update_memory returns.
UCommit(t) ==
    /\ pc[t] = "commit"
    /\ committed' = db
    /\ pc' = [pc EXCEPT ![t] = "idle"]
    /\ loc' = [loc EXCEPT ![t] = Idle]
    /\ last' = [NoCall EXCEPT !.op = "update_memory", !.id = loc[t].memory_id,
                              !.version = loc[t].new_version,
                              !.content = loc[t].content,
                              !.ok = (loc[t].rowcount > 0)]
    /\ UNCHANGED <<db, hist, svcvars, env, store>>

NextU ==
    \/ \E t \in Updaters, content \in Docs : UCreate(t, content)
    \/ \E t \in Updaters, memory_id \in RecordIds, content \in Docs :
           USelectMax(t, memory_id, content)
    \/ \E t \in Updaters : UUpdate(t)
    \/ \E t \in Updaters : UInsert(t)
    \/ \E t \in Updaters : UCommit(t)

SpecU == InitU /\ [][NextU]_vars

\* C5: concurrent update_memory calls on one record get distinct version
\* numbers (each call's read of the maximum, row update and ledger append
\* act as one step), so no two ledger entries they write for a record carry
\* the same version number.
C5_DistinctVersionNumbers ==
    \A v \in committed.versions, w \in committed.versions :
        (/\ v.changed_by = "user" /\ w.changed_by = "user"
         /\ v.memory_id = w.memory_id /\ v.version = w.version) => v = w

\* C36: the current content of each live record equals the content of its
\* highest-numbered ledger entry (the entry get_versions lists last),
\* whatever the interleaving of the calls.  The states looked at are those
\* with no call under way.
C36_ContentIsNewestVersion ==
    (\A t \in Updaters : pc[t] = "idle") =>
        \A m \in committed.memories :
            m.is_deleted = 0 =>
                LET versions == get_versions(committed, m.id)
                IN  /\ versions # <<>>
                    /\ versions[Len(versions)].content = json_loads(m.content)

(***************************************************************************)
(* PersistenceService: one caller thread (queue_save, force_flush, start)  *)
(* and the background thread start() creates (_auto_flush_loop).  Neither  *)
(* queue_save nor force_flush takes self._lock, so the two threads         *)
(* interleave statement by statement; save_memory runs on the shared       *)
(* connection: INSERT, INSERT, commit, or rollback when a statement fails. *)
(***************************************************************************)
MaxItems == 2          \* queue_save calls accepted
MaxErrors == 1         \* flush failures explored
max_queue_size == 1    \* PersistenceService(max_queue_size=...)

QThreads == {"caller", "loop"}
QueueTypes == {"daily", "bogus"}
QueueContent == [k \in Keys |-> "x"]
NoItem == [memory_type |-> "none", content |-> EmptyDoc, session_id |-> 0]
NoLocals == [ctx |-> "none", item |-> NoItem, items |-> <<>>, idx |-> 0,
             flushed |-> 0, memory_id |-> 0]

InitQ ==
    /\ db = EmptyDB
    /\ committed = EmptyDB
    /\ last = NoCall
    /\ hist = [id \in RecordIds |-> NoHist]
    /\ pc = [t \in QThreads |-> IF t = "loop" THEN "unstarted" ELSE "idle"]
    /\ loc = [t \in QThreads |-> NoLocals]
    /\ queue = <<>>
    /\ svc = NewService
    /\ qhist = NoQueueHist
    /\ env = NewEnv
    /\ store = NewStore

\* The model stops starting calls once MaxErrors flush failures were counted.
Exploring == svc.error_count < MaxErrors

\* start(): sets _running and starts the daemon thread (auto_flush=True).
\* (A restart is taken up once the previous thread has left its loop.)
Start ==
    /\ pc["caller"] = "idle"
    /\ ~svc.running
    /\ pc["loop"] \in {"unstarted", "loop_exit"}
    /\ svc' = [svc EXCEPT !.running = TRUE]
    /\ pc' = [pc EXCEPT !["loop"] = "loop_top"]
    /\ last' = [NoCall EXCEPT !.op = "start", !.ok = TRUE]
    /\ UNCHANGED <<dbvars, hist, loc, queue, qhist, env, store>>

\* stop(): returns at once when not running; otherwise clears _running and
\* calls force_flush.
Stop ==
    /\ pc["caller"] = "idle"
    /\ Exploring
    /\ IF svc.running
       THEN /\ svc' = [svc EXCEPT !.running = FALSE]
            /\ pc' = [pc EXCEPT !["caller"] = "ff_drain"]
            /\ loc' = [loc EXCEPT !["caller"] = [NoLocals EXCEPT !.ctx = "stop"]]
            /\ last' = last
       ELSE /\ last' = [NoCall EXCEPT !.op = "stop"]
            /\ UNCHANGED <<svc, pc, loc>>
    /\ UNCHANGED <<dbvars, hist, queue, qhist, env, store>>

\* stop(): self._flush_thread.join(timeout=2) ends when the thread has left
\* its loop or when the two seconds are over, whichever comes first.
StopJoin ==
    /\ pc["caller"] = "stop_join"
    /\ \/ pc["loop"] \in {"unstarted", "loop_exit"}
       \/ pc["loop"] \notin {"unstarted", "loop_exit"}
    /\ pc' = [pc EXCEPT !["caller"] = "idle"]
    /\ last' = [NoCall EXCEPT !.op = "stop", !.valid = TRUE, !.ok = TRUE]
    /\ UNCHANGED <<dbvars, hist, loc, svcvars, env, store>>

\* _auto_flush_loop: while self._running.
LoopTop(t) ==
    /\ pc[t] = "loop_top"
    /\ pc' = [pc EXCEPT ![t] = IF svc.running THEN "loop_sleep" ELSE "loop_exit"]
    /\ UNCHANGED <<dbvars, last, hist, loc, svcvars, env, store>>

\* (bug variant: the loop sleeps and goes round without flushing)
LoopSleepOnly(t) ==
    /\ pc[t] = "loop_sleep"
    /\ pc' = [pc EXCEPT ![t] = "loop_top"]
    /\ UNCHANGED <<dbvars, last, hist, loc, svcvars, env, store>>

\* _auto_flush_loop: after time.sleep, force_flush() if the queue is not empty.
LoopSleep(t) ==
    /\ pc[t] = "loop_sleep"
    /\ IF Len(queue) > 0
       THEN /\ Exploring
            /\ pc' = [pc EXCEPT ![t] = "ff_drain"]
            /\ loc' = [loc EXCEPT ![t] = [NoLocals EXCEPT !.ctx = "loop"]]
       ELSE /\ pc' = [pc EXCEPT ![t] = "loop_top"]
            /\ loc' = loc
    /\ UNCHANGED <<dbvars, last, hist, svcvars, env, store>>

\* queue_save: at capacity it calls force_flush first, then puts the item.
QueueSave(t, memory_type, content) ==
    /\ pc[t] = "idle"
    /\ Exploring
    /\ svc.total_queues < MaxItems
    /\ LET item == [memory_type |-> memory_type, content |-> content,
                    session_id |-> svc.total_queues + 1]
       IN  IF Len(queue) >= max_queue_size
           THEN /\ pc' = [pc EXCEPT ![t] = "ff_drain"]
                /\ loc' = [loc EXCEPT ![t] = [NoLocals EXCEPT !.ctx = "queue_save",
                                                             !.item = item]]
                /\ qhist' = [qhist EXCEPT !.forced = @ + 1]
           ELSE /\ pc' = [pc EXCEPT ![t] = "qs_put"]
                /\ loc' = [loc EXCEPT ![t] = [NoLocals EXCEPT !.ctx = "queue_save",
                                                             !.item = item]]
                /\ qhist' = qhist
    /\ UNCHANGED <<dbvars, last, hist, queue, svc, env, store>>

\* queue_save: self._queue.put(item); self._total_queues += 1; return True.
QueuePut(t) ==
    /\ pc[t] = "qs_put"
    /\ queue' = Append(queue, loc[t].item)
    /\ svc' = [svc EXCEPT !.total_queues = @ + 1]
    /\ qhist' = [qhist EXCEPT !.accepted = Append(@, loc[t].item)]
    /\ pc' = [pc EXCEPT ![t] = "idle"]
    /\ loc' = [loc EXCEPT ![t] = NoLocals]
    /\ last' = [NoCall EXCEPT !.op = "queue_save", !.id = loc[t].item.session_id,
                              !.ok = TRUE]
    /\ UNCHANGED <<dbvars, hist, env, store>>

\* force_flush() called by the caller itself.
ForceFlush(t) ==
    /\ pc[t] = "idle"
    /\ Exploring
    /\ pc' = [pc EXCEPT ![t] = "ff_drain"]
    /\ loc' = [loc EXCEPT ![t] = [NoLocals EXCEPT !.ctx = "force_flush"]]
    /\ UNCHANGED <<dbvars, last, hist, svcvars, env, store>>

\* force_flush: while True: items.append(self._queue.get_nowait()), until Empty.
FlushDrain(t) ==
    /\ pc[t] = "ff_drain"
    /\ IF queue # <<>>
       THEN /\ queue' = Tail(queue)
            /\ loc' = [loc EXCEPT ![t].items = Append(@, Head(queue))]
            /\ pc' = pc
       ELSE /\ queue' = queue
            /\ loc' = [loc EXCEPT ![t].idx = 1]
            /\ pc' = [pc EXCEPT ![t] = IF loc[t].items = <<>> THEN "ff_return"
                                                            ELSE "sm_validate"]
    /\ UNCHANGED <<dbvars, last, hist, svc, qhist, env, store>>

CurrentItem(t) == loc[t].items[loc[t].idx]

\* save_memory(item): the checks that raise ValueError.
SaveValidate(t) ==
    /\ pc[t] = "sm_validate"
    /\ pc' = [pc EXCEPT ![t] =
                IF Rejects(CurrentItem(t).memory_type, CurrentItem(t).content, 0)
                THEN "ff_except" ELSE "sm_insert_memory"]
    /\ UNCHANGED <<dbvars, last, hist, loc, svcvars, env, store>>

\* A statement fails inside the with block: transaction() rolls the
\* connection back, which undoes every uncommitted statement on it.
StatementFails(t) ==
    /\ db' = committed
    /\ pc' = [pc EXCEPT ![t] = "ff_except"]
    /\ UNCHANGED <<committed, last, hist, loc, svcvars, env, store>>

\* save_memory(item): INSERT INTO memories; memory_id = cursor.lastrowid.
SaveInsertMemory(t) ==
    /\ pc[t] = "sm_insert_memory"
    /\ \/ /\ db' = InsertMemory(db, CurrentItem(t).memory_type,
                               CurrentItem(t).session_id,
                               json_dumps(CurrentItem(t).content), 0)
          /\ loc' = [loc EXCEPT ![t].memory_id = db.seq.memories + 1]
          /\ pc' = [pc EXCEPT ![t] = "sm_insert_version"]
          /\ UNCHANGED <<committed, last, hist, svcvars, env, store>>
       \/ /\ Exploring
          /\ StatementFails(t)

\* save_memory(item): INSERT INTO versions (memory_id, 1, ...); the foreign
\* key (PRAGMA foreign_keys = ON) needs the memories row to exist.
SaveInsertVersion(t) ==
    /\ pc[t] = "sm_insert_version"
    /\ \/ /\ MemoryRows(db, loc[t].memory_id) # {}
          /\ db' = InsertVersion(db, loc[t].memory_id, 1,
                                json_dumps(CurrentItem(t).content), "system")
          /\ pc' = [pc EXCEPT ![t] = "sm_commit"]
          /\ UNCHANGED <<committed, last, hist, loc, svcvars, env, store>>
       \/ /\ MemoryRows(db, loc[t].memory_id) = {}
          /\ StatementFails(t)
       \/ /\ Exploring
          /\ StatementFails(t)

\* save_memory(item): commit; then flushed += 1 and the next item.
SaveCommit(t) ==
    /\ pc[t] = "sm_commit"
    /\ committed' = db
    /\ loc' = [loc EXCEPT ![t].flushed = @ + 1,
                          ![t].idx = IF @ < Len(loc[t].items) THEN @ + 1 ELSE @]
    /\ pc' = [pc EXCEPT ![t] = IF loc[t].idx < Len(loc[t].items)
                               THEN "sm_validate" ELSE "ff_done"]
    /\ UNCHANGED <<db, last, hist, svcvars, env, store>>

\* (bug variant: the saved batch is put back on the queue as well)
FlushDoneRequeueing(t) ==
    /\ pc[t] = "ff_done"
    /\ svc' = [svc EXCEPT !.flush_count = @ + loc[t].flushed]
    /\ loc' = [loc EXCEPT ![t].idx = 1]
    /\ pc' = [pc EXCEPT ![t] = "ff_requeue"]
    /\ UNCHANGED <<dbvars, last, hist, queue, qhist, env, store>>

\* force_flush: the whole batch saved: self._flush_count += flushed.
FlushDone(t) ==
    /\ pc[t] = "ff_done"
    /\ svc' = [svc EXCEPT !.flush_count = @ + loc[t].flushed]
    /\ pc' = [pc EXCEPT ![t] = "ff_return"]
    /\ UNCHANGED <<dbvars, last, hist, loc, queue, qhist, env, store>>

\* (bug variant: the exception leaves force_flush and reaches its caller)
FlushExceptRaising(t) ==
    /\ pc[t] = "ff_except"
    /\ svc' = [svc EXCEPT !.error_count = @ + 1]
    /\ pc' = [pc EXCEPT ![t] = IF loc[t].ctx = "loop" THEN "loop_top" ELSE "idle"]
    /\ loc' = [loc EXCEPT ![t] = NoLocals]
    /\ last' = IF loc[t].ctx = "loop" THEN last
               ELSE [NoCall EXCEPT !.op = loc[t].ctx, !.raised = "Exception"]
    /\ UNCHANGED <<dbvars, hist, queue, qhist, env, store>>

\* force_flush: except Exception: self._error_count += 1.
FlushExcept(t) ==
    /\ pc[t] = "ff_except"
    /\ svc' = [svc EXCEPT !.error_count = @ + 1]
    /\ loc' = [loc EXCEPT ![t].idx = 1]
    /\ pc' = [pc EXCEPT ![t] = "ff_requeue"]
    /\ UNCHANGED <<dbvars, last, hist, queue, qhist, env, store>>

\* force_flush: for item in items: self._queue.put(item).
FlushRequeue(t) ==
    /\ pc[t] = "ff_requeue"
    /\ queue' = Append(queue, CurrentItem(t))
    /\ loc' = [loc EXCEPT ![t].idx = IF @ < Len(loc[t].items) THEN @ + 1 ELSE @]
    /\ pc' = [pc EXCEPT ![t] = IF loc[t].idx < Len(loc[t].items)
                               THEN "ff_requeue" ELSE "ff_return"]
    /\ UNCHANGED <<dbvars, last, hist, svc, qhist, env, store>>

\* force_flush: return flushed, to whoever called it.
FlushReturn(t) ==
    /\ pc[t] = "ff_return"
    /\ pc' = [pc EXCEPT ![t] = CASE loc[t].ctx = "loop" -> "loop_top"
                                 [] loc[t].ctx = "queue_save" -> "qs_put"
                                 [] loc[t].ctx = "stop" -> "stop_join"
                                 [] OTHER -> "idle"]
    /\ loc' = [loc EXCEPT ![t] = IF loc[t].ctx = "queue_save"
                                 THEN [NoLocals EXCEPT !.ctx = "queue_save",
                                                       !.item = loc[t].item]
                                 ELSE NoLocals]
    /\ last' = IF loc[t].ctx = "force_flush"
               THEN [NoCall EXCEPT !.op = "force_flush", !.id = loc[t].flushed,
                                   !.ok = TRUE]
               ELSE last
    /\ UNCHANGED <<dbvars, hist, svcvars, env, store>>

NextQ ==
    \/ Start
    \/ \E memory_type \in QueueTypes : QueueSave("caller", memory_type, QueueContent)
    \/ QueuePut("caller")
    \/ ForceFlush("caller")
    \/ LoopTop("loop")
    \/ LoopSleep("loop")
    \/ \E t \in QThreads : FlushDrain(t)
    \/ \E t \in QThreads : SaveValidate(t)
    \/ \E t \in QThreads : SaveInsertMemory(t)
    \/ \E t \in QThreads : SaveInsertVersion(t)
    \/ \E t \in QThreads : SaveCommit(t)
    \/ \E t \in QThreads : FlushDone(t)
    \/ \E t \in QThreads : FlushExcept(t)
    \/ \E t \in QThreads : FlushRequeue(t)
    \/ \E t \in QThreads : FlushReturn(t)

SpecQ == InitQ /\ [][NextQ]_vars

\* The same service with stop() among the caller's calls.
NextS ==
    \/ NextQ
    \/ Stop
    \/ StopJoin

SpecS == InitQ /\ [][NextS]_vars

(***************************************************************************)
(* Properties of the Persistence Queue (SpecQ).                            *)
(***************************************************************************)
Accepted == {qhist.accepted[i] : i \in DOMAIN qhist.accepted}
Queued == {queue[i] : i \in DOMAIN queue}
InFlush(t) == pc[t] \in {"ff_drain", "sm_validate", "sm_insert_memory",
                         "sm_insert_version", "sm_commit", "ff_done",
                         "ff_except", "ff_requeue", "ff_return"}
Held == UNION {{loc[t].items[i] : i \in DOMAIN loc[t].items} :
                   t \in {u \in QThreads : InFlush(u)}}
\* The committed records that carry an item's payload, each with its ledger.
RecordsOf(item) ==
    {m \in committed.memories :
        /\ m.session_id = item.session_id
        /\ m.memory_type = item.memory_type
        /\ json_loads(m.content) = item.content}
Persisted == {item \in Accepted : RecordsOf(item) # {}}

\* C7: with no store error, K queue_save calls followed by one force_flush
\* leave exactly K records in the store, one per queued item, and an empty
\* queue, also when K exceeds max_queue_size and queue_save forced flushes
\* on the way.  (The state looked at is the caller's return from
\* force_flush with no flush of the background thread under way.)
C7_FlushPersistsEachItemOnce ==
    (/\ pc["caller"] = "idle" /\ last.op = "force_flush"
     /\ svc.error_count = 0
     /\ ~InFlush("loop")) =>
        /\ queue = <<>>
        /\ Cardinality(committed.memories) = Len(qhist.accepted)
        /\ \A item \in Accepted :
               /\ Cardinality(RecordsOf(item)) = 1
               /\ \A m \in RecordsOf(item) :
                      Cardinality(VersionRows(committed, m.id)) = 1

C7_Witness ==
    /\ pc["caller"] = "idle" /\ last.op = "force_flush"
    /\ svc.error_count = 0
    /\ pc["loop"] = "unstarted"
    /\ Len(qhist.accepted) > max_queue_size
    /\ qhist.forced > 0
    /\ last.id > 0
    /\ Cardinality(committed.memories) = Len(qhist.accepted)

\* C8: no item queue_save accepted is ever lost: each is in the queue, held
\* by a flush still in progress, or persisted in the store, whatever store
\* failures occur and however the background loop interleaves with callers.
C8_NoAcceptedItemLost ==
    \A item \in Accepted : item \in Queued \/ item \in Held \/ item \in Persisted

\* C9: the queue never holds more than max_queue_size items.
C9_QueueBounded == Len(queue) <= max_queue_size

\* C10: queue_save never rejects or drops: every call returns True with the
\* item appended to the queue, and a failure of the flush it forced is
\* counted in error_count, not raised to the caller.
C10_EnqueueNeverFails ==
    [][/\ (last'.op = "queue_save" /\ last' # last) =>
              /\ last'.ok /\ last'.raised = "none"
              /\ pc["caller"] = "qs_put"
              /\ queue' = Append(queue, loc["caller"].item)
       /\ (pc["caller"] = "ff_except" /\ pc'["caller"] # "ff_except"
           /\ loc["caller"].ctx = "queue_save") =>
              /\ svc'.error_count = svc.error_count + 1
              /\ last' = last
              /\ loc'["caller"].ctx = "queue_save"
              /\ loc'["caller"].item = loc["caller"].item
              /\ pc'["caller"] \in {"ff_requeue", "ff_return", "qs_put"}]_vars

C10_Witness ==
    /\ last.op = "queue_save" /\ last.ok
    /\ qhist.forced > 0
    /\ svc.error_count > 0
    /\ Len(queue) > max_queue_size
    /\ pc["loop"] = "unstarted"

\* C11: stop() on a running service clears the running flag and makes one
\* final force_flush before it returns: with no store error (and nothing
\* enqueued meanwhile) every item accepted before is persisted and the queue
\* is empty when stop() has returned.
C11_StopFlushesEverything ==
    (/\ last.op = "stop" /\ last.valid
     /\ pc["caller"] = "idle"
     /\ svc.error_count = 0
     /\ \A item \in Accepted : ~Rejects(item.memory_type, item.content, 0)) =>
        /\ ~svc.running
        /\ queue = <<>>
        /\ \A item \in Accepted : item \in Persisted

\* C12: the drain step of force_flush is mutually exclusive: the flush of the
\* background loop and a flush the caller triggered (force_flush, queue_save
\* at capacity, stop) are never both draining the queue.
C12_DrainMutuallyExclusive ==
    ~(pc["caller"] = "ff_drain" /\ pc["loop"] = "ff_drain")

\* C13: an item whose save_memory fails validation (empty content, unknown
\* kind, importance outside 0..10) is never retried: the flush that hit the
\* error does not put it back on the queue.
C13_RejectedItemNotRequeued ==
    [][\A t \in QThreads :
          FlushRequeue(t) =>
              ~Rejects(CurrentItem(t).memory_type, CurrentItem(t).content, 0)]_vars

\* C29: queued items are persisted in enqueue order: of two accepted items
\* the record of the one enqueued first is created first (it has the lower
\* record id), whichever flushes persist them.
C29_PersistedInEnqueueOrder ==
    \A a, b \in DOMAIN qhist.accepted :
        a < b =>
            \A ra \in RecordsOf(qhist.accepted[a]), rb \in RecordsOf(qhist.accepted[b]) :
                ra.id < rb.id

\* C37: when force_flush fails partway through a batch, only the drained
\* items that were not persisted are put back on the queue: no item that
\* already has its committed record is re-enqueued.
C37_PersistedItemNotRequeued ==
    [][\A t \in QThreads :
          FlushRequeue(t) => RecordsOf(CurrentItem(t)) = {}]_vars

\* stop() was called on the started service and has returned, and start()
\* has not been called since.
StopReturned ==
    /\ ~svc.running
    /\ pc["loop"] # "unstarted"
    /\ pc["caller"] # "stop_join"
    /\ loc["caller"].ctx # "stop"

\* C38: after stop() has returned the background loop performs no further
\* flush: it takes nothing from the queue, so an item enqueued after stop()
\* returned stays there until the caller flushes or starts the service again.
C38_NoFlushAfterStop ==
    [][(StopReturned /\ FlushDrain("loop")) => queue' = queue]_vars

(***************************************************************************)
(* The running service left to its background loop: the caller starts the  *)
(* service and calls queue_save only (never force_flush, never stop), the  *)
(* items are ones save_memory takes, and no statement fails.  A thread     *)
(* that is inside a call, or inside _auto_flush_loop, is runnable, so the  *)
(* scheduler lets it take its next statement: weak fairness on each        *)
(* thread's steps.  Nothing makes the caller start another call.           *)
(***************************************************************************)
\* save_memory returns normally: no ValueError, no failing statement.
StoreAccepts(t) == pc'[t] # "ff_except"

\* The next statement of thread t, in _auto_flush_loop or inside queue_save.
Proceed(t) ==
    \/ LoopTop(t)
    \/ LoopSleep(t)
    \/ QueuePut(t)
    \/ FlushDrain(t)
    \/ SaveValidate(t) /\ StoreAccepts(t)
    \/ SaveInsertMemory(t) /\ StoreAccepts(t)
    \/ SaveInsertVersion(t) /\ StoreAccepts(t)
    \/ SaveCommit(t)
    \/ FlushDone(t)
    \/ FlushReturn(t)

NextL ==
    \/ Start
    \/ QueueSave("caller", "daily", QueueContent)
    \/ \E t \in QThreads : Proceed(t)

SpecL == InitQ /\ [][NextL]_vars /\ \A t \in QThreads : WF_vars(Proceed(t))

\* C30: while the service runs with auto_flush and the store accepts the
\* writes, the background loop alone empties a non-empty queue, and every
\* item queue_save accepted is eventually persisted, with no call of
\* force_flush by the caller.
C30_LoopEventuallyPersists ==
    /\ (svc.running /\ queue # <<>>) ~> (queue = <<>>)
    /\ \A i \in 1..MaxItems :
           (svc.running /\ Len(qhist.accepted) >= i)
               ~> (Len(qhist.accepted) >= i /\ qhist.accepted[i] \in Persisted)

\* Both items were accepted while the queue had room, and the loop's flushes
\* alone persisted them and left the queue empty.
C30_Witness ==
    /\ svc.running
    /\ Len(qhist.accepted) = MaxItems
    /\ qhist.forced = 0
    /\ queue = <<>>
    /\ Persisted = Accepted
    /\ svc.flush_count = MaxItems

(***************************************************************************)
(* start() and stop() in any order.  Every start() that finds _running     *)
(* False creates a new Thread object, whatever became of the one before;   *)
(* stop() waits for the latest thread for two seconds at most.  A thread   *)
(* that outlives stop() reads self._running again at the top of its loop.  *)
(***************************************************************************)
LoopThreads == {"loop", "loop2"}       \* the Thread objects start() creates
TThreads == {"caller"} \cup LoopThreads

Alive(t) == pc[t] \notin {"unstarted", "loop_exit"}

InitT ==
    /\ db = EmptyDB
    /\ committed = EmptyDB
    /\ last = NoCall
    /\ hist = [id \in RecordIds |-> NoHist]
    /\ pc = [t \in TThreads |-> IF t \in LoopThreads THEN "unstarted" ELSE "idle"]
    /\ loc = [t \in TThreads |-> NoLocals]
    /\ queue = <<>>
    /\ svc = NewService
    /\ qhist = NoQueueHist
    /\ env = NewEnv
    /\ store = NewStore

\* start(): returns at once when _running; otherwise sets _running and
\* starts a new daemon thread on _auto_flush_loop.
StartThread ==
    /\ pc["caller"] = "idle"
    /\ last' = [NoCall EXCEPT !.op = "start", !.ok = TRUE]
    /\ IF svc.running
       THEN UNCHANGED <<svc, pc>>
       ELSE /\ svc' = [svc EXCEPT !.running = TRUE]
            /\ \E t \in LoopThreads :
                   /\ pc[t] = "unstarted"
                   /\ t = "loop2" => pc["loop"] # "unstarted"
                   /\ pc' = [pc EXCEPT ![t] = "loop_top"]
    /\ UNCHANGED <<dbvars, hist, loc, queue, qhist, env, store>>

NextT ==
    \/ StartThread
    \/ Stop
    \/ StopJoin
    \/ QueueSave("caller", "daily", QueueContent)
    \/ QueuePut("caller")
    \/ \E t \in LoopThreads : LoopTop(t)
    \/ \E t \in LoopThreads : LoopSleep(t)
    \/ \E t \in TThreads : FlushDrain(t)
    \/ \E t \in TThreads : SaveValidate(t)
    \/ \E t \in TThreads : SaveInsertMemory(t)
    \/ \E t \in TThreads : SaveInsertVersion(t)
    \/ \E t \in TThreads : SaveCommit(t)
    \/ \E t \in TThreads : FlushDone(t)
    \/ \E t \in TThreads : FlushExcept(t)
    \/ \E t \in TThreads : FlushRequeue(t)
    \/ \E t \in TThreads : FlushReturn(t)

SpecT == InitT /\ [][NextT]_vars

\* C31: at most one background auto-flush loop is alive at any time, over
\* any sequence of start() and stop() calls on the service.
C31_AtMostOneLoopAlive ==
    Cardinality({t \in LoopThreads : Alive(t)}) <= 1

(***************************************************************************)
(* save_immediately, called while items are waiting in the queue and no    *)
(* flush is under way.  A call either returns the new id, or save_memory   *)
(* raises: ValueError for input it rejects, or the error of a statement    *)
(* that failed, after transaction() rolled back.                           *)
(***************************************************************************)
PendingItems ==
    {<<>>} \cup {<<[memory_type |-> memory_type, content |-> QueueContent,
                    session_id |-> 1]>> : memory_type \in QueueTypes}

InitI ==
    /\ db = EmptyDB
    /\ committed = EmptyDB
    /\ last = NoCall
    /\ hist = [id \in RecordIds |-> NoHist]
    /\ pc = [t \in QThreads |-> IF t = "loop" THEN "unstarted" ELSE "idle"]
    /\ loc = [t \in QThreads |-> NoLocals]
    /\ queue \in PendingItems
    /\ svc = [NewService EXCEPT !.total_queues = Len(queue)]
    /\ qhist = [NoQueueHist EXCEPT !.accepted = queue]
    /\ env = NewEnv
    /\ store = NewStore

\* (bug variant: a failed write is put on the queue to be retried by a flush)
SaveImmediatelyRetrying(memory_type, content, importance) ==
    LET r == save_memory(db, memory_type, content, NoSession, importance)
        item == [memory_type |-> memory_type, content |-> content,
                 session_id |-> NoSession]
    IN  /\ pc["caller"] = "idle"
        /\ db.seq.memories < MaxMemories
        /\ \/ /\ r.raised = "none"
              /\ db' = r.db
              /\ committed' = r.db
              /\ svc' = [svc EXCEPT !.total_saves = @ + 1]
              /\ last' = [NoCall EXCEPT !.op = "save_immediately", !.id = r.id,
                                        !.content = content, !.valid = TRUE,
                                        !.ok = TRUE]
              /\ queue' = queue
           \/ /\ r.raised # "none"
              /\ Exploring
              /\ UNCHANGED dbvars
              /\ svc' = [svc EXCEPT !.total_saves = @ + 1, !.error_count = @ + 1]
              /\ last' = [NoCall EXCEPT !.op = "save_immediately",
                                        !.content = content, !.raised = r.raised]
              /\ queue' = Append(queue, item)
           \/ /\ r.raised = "none"
              /\ Exploring
              /\ db' = committed
              /\ committed' = committed
              /\ svc' = [svc EXCEPT !.total_saves = @ + 1, !.error_count = @ + 1]
              /\ last' = [NoCall EXCEPT !.op = "save_immediately",
                                        !.content = content, !.valid = TRUE,
                                        !.raised = "sqlite3.Error"]
              /\ queue' = Append(queue, item)
        /\ UNCHANGED <<hist, threadvars, qhist, env, store>>

\* save_immediately: _total_saves += 1; db.save_memory(...); on an exception
\* _error_count += 1 and raise.
SaveImmediately(memory_type, content, importance) ==
    LET r == save_memory(db, memory_type, content, NoSession, importance)
        item == [memory_type |-> memory_type, content |-> content,
                 session_id |-> NoSession]
    IN  /\ pc["caller"] = "idle"
        /\ db.seq.memories < MaxMemories
        /\ \/ /\ r.raised = "none"
              /\ db' = r.db
              /\ committed' = r.db
              /\ svc' = [svc EXCEPT !.total_saves = @ + 1]
              /\ last' = [NoCall EXCEPT !.op = "save_immediately", !.id = r.id,
                                        !.content = content, !.valid = TRUE,
                                        !.ok = TRUE]
              /\ queue' = queue
           \/ /\ r.raised # "none"
              /\ Exploring
              /\ UNCHANGED dbvars
              /\ svc' = [svc EXCEPT !.total_saves = @ + 1, !.error_count = @ + 1]
              /\ last' = [NoCall EXCEPT !.op = "save_immediately",
                                        !.content = content, !.raised = r.raised]
              /\ queue' = queue
           \/ /\ r.raised = "none"
              /\ Exploring
              /\ db' = committed
              /\ committed' = committed
              /\ svc' = [svc EXCEPT !.total_saves = @ + 1, !.error_count = @ + 1]
              /\ last' = [NoCall EXCEPT !.op = "save_immediately",
                                        !.content = content, !.valid = TRUE,
                                        !.raised = "sqlite3.Error"]
              /\ queue' = queue
        /\ UNCHANGED <<hist, threadvars, qhist, env, store>>

NextI ==
    \E memory_type \in InputTypes, content \in Docs, importance \in InputImportances :
        SaveImmediately(memory_type, content, importance)

SpecI == InitI /\ [][NextI]_vars

\* C14: save_immediately bypasses the queue: it persists the record through
\* save_memory and returns the new id, or re-raises the error without
\* enqueuing or retrying the write; either way the queue is as it was.
C14_SaveImmediatelyBypassesQueue ==
    [][\A memory_type \in InputTypes, content \in Docs,
          importance \in InputImportances :
          SaveImmediately(memory_type, content, importance) =>
              /\ queue' = queue
              /\ last'.ok <=> last'.raised = "none"
              /\ last'.ok =>
                     /\ last'.id = db.seq.memories + 1
                     /\ get_memory(committed', last'.id) =
                            [found |-> TRUE, content |-> content]
                     /\ Len(get_versions(committed', last'.id)) = 1
              /\ ~last'.ok =>
                     /\ committed' = committed /\ db' = db
                     /\ svc'.error_count = svc.error_count + 1
              /\ Rejects(memory_type, content, importance) =>
                     last'.raised = "ValueError"]_vars

C14_Witness ==
    /\ last.op = "save_immediately" /\ last.ok
    /\ svc.error_count > 0
    /\ queue # <<>>
    /\ get_memory(committed, last.id).content = last.content

(***************************************************************************)
(* Backup and restore: calls made one after another on a store that is     *)
(* also created in, updated and purged; backup files can be damaged or     *)
(* removed from outside.  A backup made in the same second as the one      *)
(* before gets the same file name.                                         *)
(***************************************************************************)
MaxBackups == 1        \* rows ever inserted into backups, seconds with a backup
MaxRestores == 1       \* restores that succeed
MaxWrites == 2         \* changes of the records between backups

BackupInputTypes == {"manual"}
\* What the store is filled with between backups.
Created == [k \in Keys |-> "x"]
Updated == [k \in Keys |-> "y"]
Stamps == 1..MaxBackups
BackupIds == 1..MaxBackups

BackupCall(op, backup_id, valid, r) ==
    [NoCall EXCEPT !.op = op, !.id = backup_id, !.valid = valid, !.ok = r.ok,
                   !.raised = r.raised]

\* A committed change of the records between two backup calls: one
\* save_memory, update_memory or permanent delete_memory that succeeds.
StoreWrite ==
    \E r \in {save_memory(db, "longterm", Created, NoSession, 0)}
             \cup {update_memory(db, id, Updated, "user") : id \in RecordIds}
             \cup {delete_memory(db, id, TRUE) : id \in RecordIds} :
        /\ r.ok
        /\ r.db # db
        /\ env.writes < MaxWrites
        /\ r.db.seq.memories <= MaxMemories
        /\ r.db.seq.versions <= MaxVersionRows
        /\ db' = r.db
        /\ committed' = r.db
        /\ env' = [Connected(env) EXCEPT !.writes = @ + 1]
        /\ last' = [NoCall EXCEPT !.op = "write", !.ok = TRUE]
        /\ UNCHANGED <<hist, threadvars, svcvars, store>>

\* MemoryDB.create_backup(backup_type).
MemoryCreateBackup(backup_type, stamp, copy_fails) ==
    LET r == db_create_backup(db, env, backup_type, stamp, copy_fails)
    IN  /\ db.seq.backups < MaxBackups
        /\ stamp \in {env.stamp, env.stamp + 1}
        /\ db' = r.db
        /\ committed' = r.db
        /\ env' = r.env
        /\ last' = BackupCall("db.create_backup", r.id,
                              ~copy_fails /\ backup_type \in BackupTypes, r)
        /\ UNCHANGED <<hist, threadvars, svcvars, store>>

\* BackupService.create_backup(backup_type).
ServiceCreateBackup(backup_type, stamp, copy_fails) ==
    LET r == create_backup(db, env, backup_type, stamp, copy_fails)
    IN  /\ db.seq.backups < MaxBackups
        /\ stamp \in {env.stamp, env.stamp + 1}
        /\ db' = r.db
        /\ committed' = r.db
        /\ env' = r.env
        /\ last' = BackupCall("create_backup", r.id,
                              /\ ~copy_fails /\ backup_type \in BackupTypes
                              /\ env.conn = "open", r)
        /\ UNCHANGED <<hist, threadvars, svcvars, store>>

\* BackupService.restore_backup(backup_id).
ServiceRestoreBackup(backup_id) ==
    LET r == restore_backup(db, env, backup_id)
    IN  /\ db' = r.db
        /\ committed' = r.db
        /\ env' = r.env
        /\ last' = BackupCall("restore_backup", backup_id, TRUE, r)
        /\ UNCHANGED <<hist, threadvars, svcvars, store>>

\* MemoryDB.restore_backup(backup_id).
MemoryRestoreBackup(backup_id, copy_fails) ==
    LET r == db_restore_backup(db, env, backup_id, copy_fails)
    IN  /\ env.restores < MaxRestores
        /\ db' = r.db
        /\ committed' = r.db
        /\ env' = [r.env EXCEPT !.restores = IF r.ok THEN @ + 1 ELSE @]
        /\ last' = BackupCall("db.restore_backup", backup_id, ~copy_fails, r)
        /\ UNCHANGED <<hist, threadvars, svcvars, store>>

\* From outside: the content of a backup file changes.
DamageFile(path) ==
    /\ path \in DOMAIN env.files
    /\ ~env.files[path].damaged
    /\ env' = [env EXCEPT !.files[path].damaged = TRUE]
    /\ UNCHANGED <<dbvars, last, hist, threadvars, svcvars, store>>

\* From outside: a backup file is removed.
RemoveFile(path) ==
    /\ path \in DOMAIN env.files
    /\ env' = [env EXCEPT !.files = [q \in DOMAIN env.files \ {path} |-> env.files[q]]]
    /\ UNCHANGED <<dbvars, last, hist, threadvars, svcvars, store>>

NextB ==
    \/ StoreWrite
    \/ \E backup_type \in BackupInputTypes, stamp \in Stamps, copy_fails \in BOOLEAN :
           MemoryCreateBackup(backup_type, stamp, copy_fails)
    \/ \E backup_type \in BackupInputTypes, stamp \in Stamps, copy_fails \in BOOLEAN :
           ServiceCreateBackup(backup_type, stamp, copy_fails)
    \/ \E backup_id \in BackupIds : ServiceRestoreBackup(backup_id)
    \/ \E backup_id \in BackupIds, copy_fails \in BOOLEAN :
           MemoryRestoreBackup(backup_id, copy_fails)
    \/ \E stamp \in Stamps : DamageFile(BackupPath(stamp))
    \/ \E stamp \in Stamps : RemoveFile(BackupPath(stamp))

SpecB == Init /\ [][NextB]_vars

(***************************************************************************)
(* Properties of backup and restore (SpecB).                               *)
(***************************************************************************)
CompletedRows(d) == {b \in d.backups : b.status = "completed"}
FileOf(e, row) == e.files[row.file_path]

\* C17: a BackupService.create_backup call (no I/O failure) returns a backup
\* id for which verify_backup reports valid; once the content of a completed
\* backup's file has changed verify_backup reports a checksum mismatch, and
\* once the file is removed it reports the file missing.
C17_CreateThenVerify ==
    /\ (last.op = "create_backup" /\ last.valid) =>
           /\ last.ok
           /\ verify_backup(db, env, last.id).valid
    /\ \A b \in CompletedRows(db) :
           env.conn = "open" =>
               /\ b.file_path \notin DOMAIN env.files =>
                      verify_backup(db, env, b.id) =
                          [valid |-> FALSE, error |-> "file does not exist"]
               /\ (b.file_path \in DOMAIN env.files /\ FileOf(env, b).damaged) =>
                      verify_backup(db, env, b.id) =
                          [valid |-> FALSE, error |-> "checksum mismatch"]

\* C18: BackupService.restore_backup of a completed backup whose file passes
\* the checksum verification succeeds; afterwards records and versions are
\* those the backup was made of and the connection is open again.
C18_RestoreBringsBackSnapshot ==
    [][\A backup_id \in BackupIds :
        (/\ last'.op = "restore_backup" /\ last'.id = backup_id
         /\ ServiceRestoreBackup(backup_id)
         /\ BackupRows(db, backup_id) \cap CompletedRows(db) # {}
         /\ verify_backup(db, env, backup_id).valid) =>
            LET row == CHOOSE b \in BackupRows(db, backup_id) : TRUE
                snapshot == FileOf(env, row).data
            IN  /\ last'.ok
                /\ db'.memories = snapshot.memories
                /\ db'.versions = snapshot.versions
                /\ committed' = db'
                /\ env'.conn = "open"]_vars

\* A restore that has to fail: unknown id, file missing, checksum differs.
MustRefuse(d, e, backup_id) ==
    \/ BackupRows(d, backup_id) = {}
    \/ \E b \in BackupRows(d, backup_id) :
           \/ b.file_path \notin DOMAIN e.files
           \/ md5(FileOf(e, b)) # b.checksum

\* C19: restore_backup (BackupService and MemoryDB) fails when the backup id
\* is unknown, the file is missing or its checksum differs from the recorded
\* one; the store is then unchanged and the connection still open.
C19_RefusedRestoreChangesNothing ==
    [][\A backup_id \in BackupIds :
        (/\ last'.op \in {"restore_backup", "db.restore_backup"}
         /\ last'.id = backup_id
         /\ env.conn = "open"
         /\ MustRefuse(db, env, backup_id)
         /\ \/ ServiceRestoreBackup(backup_id)
            \/ \E copy_fails \in BOOLEAN : MemoryRestoreBackup(backup_id, copy_fails)) =>
            /\ ~last'.ok
            /\ db' = db
            /\ committed' = committed
            /\ env'.files = env.files
            /\ env'.conn = "open"]_vars

C19_Witness ==
    /\ last.op = "db.restore_backup" /\ ~last.ok /\ last.raised = "none"
    /\ \E b \in BackupRows(db, last.id) :
           /\ b.file_path \in DOMAIN env.files
           /\ FileOf(env, b).damaged
           /\ FileOf(env, b).data.memories # db.memories
    /\ env.conn = "open"

\* C40: after MemoryDB.restore_backup(b) succeeds every backup listed in the
\* catalog before the restore, b included, is still listed with its path
\* and checksum, so b verifies and can be restored again.
C40_CatalogSurvivesRestore ==
    [][\A backup_id \in BackupIds :
        (/\ last'.op = "db.restore_backup" /\ last'.id = backup_id /\ last'.ok
         /\ MemoryRestoreBackup(backup_id, FALSE)) =>
            /\ db.backups \subseteq db'.backups
            /\ verify_backup(db', env', backup_id).valid]_vars

\* C20: every BackupService.create_backup attempt adds exactly one row to
\* the catalog: completed, with the size and checksum of the file written,
\* when it succeeds; failed when a step of it fails.
C20_OneCatalogRowPerAttempt ==
    [][\A backup_type \in BackupInputTypes, stamp \in Stamps, copy_fails \in BOOLEAN :
        (/\ last'.op = "create_backup"
         /\ ServiceCreateBackup(backup_type, stamp, copy_fails)) =>
            \E row \in db'.backups :
                /\ row \notin db.backups
                /\ db'.backups = db.backups \cup {row}
                /\ committed'.backups = db'.backups
                /\ IF last'.ok
                   THEN /\ row.status = "completed"
                        /\ row.id = last'.id
                        /\ row.checksum = md5(FileOf(env', row))
                        /\ row.size_bytes = getsize(FileOf(env', row))
                   ELSE row.status = "failed"]_vars

(***************************************************************************)
(* The catalog and its cleanup.  Backups are made with MemoryDB's           *)
(* create_backup (BackupService's attempts leave a file and no row) and     *)
(* thinned out with BackupService.cleanup_old_backups.                     *)
(***************************************************************************)
MaxCatalog == 2        \* rows ever inserted into backups, seconds with a backup

CatalogTypes == {"manual", "auto"}
CatalogStamps == 1..MaxCatalog
KeepCounts == -1..MaxCatalog
NoType == ""

\* MemoryDB.create_backup(backup_type), the copy succeeding.
CatalogBackup(backup_type, stamp) ==
    LET r == db_create_backup(db, env, backup_type, stamp, FALSE)
    IN  /\ db.seq.backups < MaxCatalog
        /\ stamp \in {env.stamp, env.stamp + 1}
        /\ db' = r.db
        /\ committed' = r.db
        /\ env' = r.env
        /\ last' = BackupCall("db.create_backup", r.id, TRUE, r)
        /\ UNCHANGED <<hist, threadvars, svcvars, store>>

\* BackupService.create_backup(backup_type): the attempt that fails.
CatalogFailedBackup(backup_type, stamp, copy_fails) ==
    LET r == create_backup(db, env, backup_type, stamp, copy_fails)
    IN  /\ stamp \in {env.stamp, env.stamp + 1}
        /\ r.env # env
        /\ db' = r.db
        /\ committed' = r.db
        /\ env' = r.env
        /\ last' = BackupCall("create_backup", r.id, ~copy_fails, r)
        /\ UNCHANGED <<hist, threadvars, svcvars, store>>

\* BackupService.cleanup_old_backups(keep_count, backup_type).
CleanupOldBackups(keep_count, backup_type, unlink_fails) ==
    LET r == cleanup_old_backups(db, env, keep_count, backup_type, unlink_fails)
    IN  /\ db' = r.db
        /\ committed' = r.db
        /\ env' = r.env
        /\ last' = [NoCall EXCEPT !.op = "cleanup_old_backups",
                                  !.id = r.deleted,
                                  !.version = keep_count,
                                  !.valid = ~unlink_fails /\ backup_type = NoType,
                                  !.ok = r.raised = "none",
                                  !.raised = r.raised]
        /\ UNCHANGED <<hist, threadvars, svcvars, store>>

NextC ==
    \/ \E backup_type \in CatalogTypes, stamp \in CatalogStamps :
           CatalogBackup(backup_type, stamp)
    \/ \E backup_type \in CatalogTypes, stamp \in CatalogStamps, copy_fails \in BOOLEAN :
           CatalogFailedBackup(backup_type, stamp, copy_fails)
    \/ \E keep_count \in KeepCounts, backup_type \in CatalogTypes \cup {NoType},
          unlink_fails \in BOOLEAN :
           CleanupOldBackups(keep_count, backup_type, unlink_fails)

SpecC == Init /\ [][NextC]_vars

(***************************************************************************)
(* Properties of the cleanup (SpecC).                                      *)
(***************************************************************************)
Min(a, b) == IF a < b THEN a ELSE b

\* The rows created later than row b.
CreatedAfter(rows, b) == {c \in rows : c.created_at > b.created_at}

C22_KeepsMostRecentCompleted ==
    [][\A k \in KeepCounts :
        (/\ k >= 0
         /\ CleanupOldBackups(k, NoType, FALSE)) =>
            \E S \in SUBSET CompletedRows(db) :
                /\ Cardinality(S) = Min(Cardinality(CompletedRows(db)), k)
                /\ \A b \in S : CreatedAfter(CompletedRows(db), b) \subseteq S
                /\ \A b \in S :
                       /\ b \in db'.backups
                       /\ b.file_path \in DOMAIN env.files =>
                              b.file_path \in DOMAIN env'.files]_vars

\* C39: every completed row of the backup catalog refers to its own backup
\* file: no two rows share a file path, backups of one second included, and
\* a completed row whose file is there verifies against its checksum.
C39_OwnFilePerBackup ==
    \A b \in CompletedRows(db) :
        /\ \A c \in CompletedRows(db) : b.file_path = c.file_path => b = c
        /\ b.file_path \in DOMAIN env.files => verify_backup(db, env, b.id).valid

(***************************************************************************)
(* create_backup_with_lock called from two threads.  The lock is a local   *)
(* of the call: lock = threading.Lock() makes a new one each time.  The    *)
(* call acquires it, runs create_backup (file copy, then catalog row) and  *)
(* releases it in the finally clause.                                      *)
(***************************************************************************)
BackupThreads == {"b1", "b2"}
NoLock == [lock |-> "none", backup_type |-> "", stamp |-> 0, raised |-> "none"]

InitK ==
    /\ db = EmptyDB
    /\ committed = EmptyDB
    /\ last = NoCall
    /\ hist = [id \in RecordIds |-> NoHist]
    /\ pc = [t \in BackupThreads |-> "idle"]
    /\ loc = [t \in BackupThreads |-> NoLock]
    /\ queue = <<>>
    /\ svc = NewService
    /\ qhist = NoQueueHist
    /\ env = NewEnv
    /\ store = NewStore

\* The lock the call made is held by nobody else.
OwnLockFree(t) == loc[t].lock = "free"

\* create_backup_with_lock(backup_type): lock = threading.Lock().
CallWithLock(t, backup_type) ==
    /\ pc[t] = "idle"
    /\ loc' = [loc EXCEPT ![t] = [NoLock EXCEPT !.lock = "free",
                                                !.backup_type = backup_type]]
    /\ pc' = [pc EXCEPT ![t] = "acquire"]
    /\ UNCHANGED <<dbvars, last, hist, queue, svc, qhist, env, store>>

\* if lock.acquire(timeout=timeout): ... else: raise TimeoutError.
AcquireLock(t) ==
    /\ pc[t] = "acquire"
    /\ IF OwnLockFree(t)
       THEN /\ loc' = [loc EXCEPT ![t].lock = "held"]
            /\ pc' = [pc EXCEPT ![t] = "create_backup"]
            /\ last' = last
       ELSE /\ loc' = [loc EXCEPT ![t] = NoLock]
            /\ pc' = [pc EXCEPT ![t] = "idle"]
            /\ last' = [NoCall EXCEPT !.op = "create_backup_with_lock",
                                      !.raised = "TimeoutError"]
    /\ UNCHANGED <<dbvars, hist, queue, svc, qhist, env, store>>

\* create_backup: the name from the clock, commit, shutil.copy2.
CopyDatabase(t, stamp, copy_fails) ==
    /\ pc[t] = "create_backup"
    /\ stamp \in {env.stamp, env.stamp + 1}
    /\ committed' = db
    /\ env' = IF copy_fails THEN env
              ELSE [WriteFile(env, BackupPath(stamp), CopyOf(db)) EXCEPT !.stamp = stamp]
    /\ loc' = [loc EXCEPT ![t].stamp = stamp,
                          ![t].raised = IF copy_fails THEN "OSError" ELSE "none"]
    /\ pc' = [pc EXCEPT ![t] = "record"]
    /\ UNCHANGED <<db, last, hist, queue, svc, qhist, store>>

\* create_backup: the catalog row (completed, or failed after an
\* exception), then finally: lock.release().
RecordAndRelease(t) ==
    LET r == create_backup(db, env, loc[t].backup_type, loc[t].stamp,
                           loc[t].raised # "none")
    IN  /\ pc[t] = "record"
        /\ db' = r.db
        /\ committed' = r.db
        /\ last' = BackupCall("create_backup_with_lock", r.id, FALSE, r)
        /\ loc' = [loc EXCEPT ![t] = NoLock]
        /\ pc' = [pc EXCEPT ![t] = "idle"]
        /\ UNCHANGED <<hist, queue, svc, qhist, env, store>>

NextK ==
    \/ StoreWrite
    \/ \E t \in BackupThreads, backup_type \in BackupInputTypes :
           CallWithLock(t, backup_type)
    \/ \E t \in BackupThreads : AcquireLock(t)
    \/ \E t \in BackupThreads, stamp \in Stamps, copy_fails \in BOOLEAN :
           CopyDatabase(t, stamp, copy_fails)
    \/ \E t \in BackupThreads : RecordAndRelease(t)

SpecK == InitK /\ [][NextK]_vars

InCreateBackup(t) == pc[t] \in {"create_backup", "record"}

\* C32: create_backup_with_lock prevents concurrent backups: two calls from
\* different threads are never inside create_backup at the same time.
C32_BackupsNeverConcurrent ==
    \A t, u \in BackupThreads : (InCreateBackup(t) /\ InCreateBackup(u)) => t = u

(***************************************************************************)
(* src/services/versioning_service.py: VersioningService.  Every call      *)
(* opens its own connection to db_path, commits and closes; the coroutines *)
(* never suspend between their statements, so calls run one after another. *)
(* With db_path ":memory:" every connection is a new, empty database.      *)
(***************************************************************************)
MaxEntityVersions == 3   \* rows ever inserted into the table versions

\* version: int = None.  No row has the version number 0.
None == 0
Entities == {<<"session", "s">>, <<"memory", "s">>}
VersionData == [{"content"} -> Vals]

\* json.dumps(data) of a version's data: its key/value pairs.
dumps(data) ==
    LET present == SelectSeq(<<"reverted_from", "content">>,
                             LAMBDA k : k \in DOMAIN data)
    IN  [i \in DOMAIN present |-> <<present[i], data[present[i]]>>]

\* WHERE entity_type = ? AND entity_id = ?
EntityVersions(s, entity_type, entity_id) ==
    {v \in s.versions : v.entity_type = entity_type /\ v.entity_id = entity_id}

\* (bug variant: numbered by the number of rows instead of MAX(version))
create_version_counting(s, entity_type, entity_id, data) ==
    IF s.path = ":memory:"
    THEN [store |-> s, raised |-> "OperationalError", version |-> 0]
    ELSE LET new_version == Cardinality(s.versions) + 1
         IN  [store |-> [s EXCEPT !.tables = @ \cup {"versions"},
                                  !.versions = @ \cup {[id |-> s.seq.versions + 1,
                                                        entity_type |-> entity_type,
                                                        entity_id |-> entity_id,
                                                        version |-> new_version,
                                                        data |-> dumps(data)]},
                                  !.seq.versions = @ + 1],
              raised |-> "none", version |-> new_version]

\* create_version: _ensure_tables, SELECT MAX(version), INSERT, commit.
create_version(s, entity_type, entity_id, data) ==
    IF s.path = ":memory:"
    THEN [store |-> s, raised |-> "OperationalError", version |-> 0]
    ELSE LET rows == EntityVersions(s, entity_type, entity_id)
             result == IF rows = {} THEN 0
                       ELSE CHOOSE n \in {v.version : v \in rows} :
                                \A v \in rows : v.version <= n
             new_version == result + 1
         IN  [store |-> [s EXCEPT !.tables = @ \cup {"versions"},
                                  !.versions = @ \cup {[id |-> s.seq.versions + 1,
                                                        entity_type |-> entity_type,
                                                        entity_id |-> entity_id,
                                                        version |-> new_version,
                                                        data |-> dumps(data)]},
                                  !.seq.versions = @ + 1],
              raised |-> "none", version |-> new_version]

\* get_version_history: ORDER BY version ASC, data read back with json.loads.
get_version_history(s, entity_type, entity_id) ==
    LET rows == SortVersions(EntityVersions(s, entity_type, entity_id))
    IN  [i \in DOMAIN rows |-> [version |-> rows[i].version,
                                data |-> json_loads(rows[i].data)]]

\* get_version: the row of that number, or for None the highest-numbered
\* row (ORDER BY version DESC LIMIT 1).  found is FALSE where the code
\* returns None.
get_version(s, entity_type, entity_id, version) ==
    LET history == get_version_history(s, entity_type, entity_id)
        hits == {i \in DOMAIN history : history[i].version = version}
        result == IF version = None THEN history[Len(history)]
                  ELSE history[CHOOSE i \in hits : TRUE]
    IN  IF s.path = ":memory:"
        THEN [raised |-> "OperationalError", found |-> FALSE, version |-> 0,
              data |-> <<>>]
        ELSE IF history = <<>> \/ (version # None /\ hits = {})
        THEN [raised |-> "none", found |-> FALSE, version |-> 0, data |-> <<>>]
        ELSE [raised |-> "none", found |-> TRUE, version |-> result.version,
              data |-> result.data]

\* revert_to_version: create_version({"reverted_from": t, **target["data"]}).
revert_to_version(s, entity_type, entity_id, target_version) ==
    LET target == get_version(s, entity_type, entity_id, target_version)
    IN  IF ~target.found
        THEN [store |-> s, raised |-> target.raised, version |-> 0]
        ELSE create_version(s, entity_type, entity_id,
                            target.data @@ ("reverted_from" :> target_version))

\* delete_old_versions: versions are read in descending order, to_delete is
\* versions[keep_count:], and the rows with version <= to_delete[-1] (the
\* lowest number there is) are deleted.  No _ensure_tables here.
delete_old_versions(s, entity_type, entity_id, keep_count) ==
    IF s.path = ":memory:" \/ "versions" \notin s.tables
    THEN [store |-> s, raised |-> "OperationalError", deleted |-> 0, kept |-> 0]
    ELSE LET rows == EntityVersions(s, entity_type, entity_id)
             n == Cardinality(rows)
             to_delete == IF keep_count >= 0
                          THEN (IF n > keep_count THEN n - keep_count ELSE 0)
                          ELSE (IF n < -keep_count THEN n ELSE -keep_count)
             lowest == CHOOSE v \in rows : \A w \in rows : v.version <= w.version
         IN  [store |-> IF to_delete = 0 THEN s
                        ELSE [s EXCEPT !.versions =
                                 @ \ {v \in rows : v.version <= lowest.version}],
              raised |-> "none", deleted |-> to_delete,
              kept |-> IF n < keep_count THEN n ELSE keep_count]

\* hist: per entity, the version numbers the calls have returned so far.
InitV ==
    /\ db = EmptyDB
    /\ committed = EmptyDB
    /\ last = NoCall
    /\ hist = [entity \in Entities |-> <<>>]
    /\ pc = <<>>
    /\ loc = <<>>
    /\ queue = <<>>
    /\ svc = NewService
    /\ qhist = NoQueueHist
    /\ env = NewEnv
    /\ store = NewStore

VersionCall(op, entity, version, data, r) ==
    [NoCall EXCEPT !.op = op, !.id = entity, !.version = version, !.content = data,
                   !.ok = r.raised = "none" /\ r.version > 0, !.raised = r.raised]

CreateVersion(entity, data) ==
    LET r == create_version(store, entity[1], entity[2], data)
    IN  /\ store.seq.versions < MaxEntityVersions
        /\ store' = r.store
        /\ hist' = [hist EXCEPT ![entity] = Append(@, r.version)]
        /\ last' = VersionCall("create_version", entity, r.version, data, r)
        /\ UNCHANGED <<dbvars, threadvars, svcvars, env>>

RevertToVersion(entity, target_version) ==
    LET r == revert_to_version(store, entity[1], entity[2], target_version)
    IN  /\ store.seq.versions < MaxEntityVersions
        /\ store' = r.store
        /\ hist' = IF r.version > 0 THEN [hist EXCEPT ![entity] = Append(@, r.version)]
                   ELSE hist
        /\ last' = VersionCall("revert_to_version", entity, r.version, EmptyDoc, r)
        /\ UNCHANGED <<dbvars, threadvars, svcvars, env>>

DeleteOldVersions(entity, keep_count) ==
    LET r == delete_old_versions(store, entity[1], entity[2], keep_count)
    IN  /\ store' = r.store
        /\ last' = [NoCall EXCEPT !.op = "delete_old_versions", !.id = entity,
                                  !.version = r.deleted, !.ok = r.raised = "none",
                                  !.raised = r.raised]
        /\ UNCHANGED <<dbvars, hist, threadvars, svcvars, env>>

NextV ==
    \/ \E entity \in Entities, data \in VersionData : CreateVersion(entity, data)
    \/ \E entity \in Entities, target_version \in 1..MaxEntityVersions :
           RevertToVersion(entity, target_version)
    \/ \E entity \in Entities, keep_count \in -1..2 :
           DeleteOldVersions(entity, keep_count)

SpecV == InitV /\ [][NextV]_vars

(***************************************************************************)
(* Properties of the services' VersioningService (SpecV).                  *)
(***************************************************************************)
\* C34: delete_old_versions(entity, keep_count) keeps exactly the keep_count
\* highest-numbered versions of the entity (all of them when there are
\* fewer) and deletes every older one, and the deleted and kept counts it
\* returns are the numbers of versions removed and remaining.
C34_DeleteOldVersionsKeepsNewest ==
    [][\A entity \in Entities, keep_count \in 0..MaxEntityVersions :
        (/\ last'.op = "delete_old_versions"
         /\ DeleteOldVersions(entity, keep_count)
         /\ last'.ok) =>
            LET r == delete_old_versions(store, entity[1], entity[2], keep_count)
                before == EntityVersions(store, entity[1], entity[2])
                after == EntityVersions(store', entity[1], entity[2])
            IN  /\ after = {v \in before :
                               Cardinality({w \in before : w.version > v.version})
                                   < keep_count}
                /\ r.deleted = Cardinality(before) - Cardinality(after)
                /\ r.kept = Cardinality(after)]_vars

\* C24: revert_to_version(entity, t) for an existing version t appends one
\* version numbered (previous maximum) + 1 whose data equals the data of
\* version t, which get_version without a number then returns; the earlier
\* versions stay as they are.  For a version t that does not exist it
\* reports no success and appends nothing.
C24_RevertAppendsCopy ==
    [][\A entity \in Entities, t \in 1..MaxEntityVersions :
        (last'.op = "revert_to_version" /\ RevertToVersion(entity, t)) =>
            LET target == get_version(store, entity[1], entity[2], t)
                before == get_version_history(store, entity[1], entity[2])
                after == get_version_history(store', entity[1], entity[2])
            IN  IF ~target.found
                THEN ~last'.ok /\ store' = store
                ELSE /\ last'.ok
                     /\ after = Append(before, after[Len(after)])
                     /\ after[Len(after)].version = before[Len(before)].version + 1
                     /\ after[Len(after)].data = target.data
                     /\ get_version(store', entity[1], entity[2], None).data = target.data
                     /\ store.versions \subseteq store'.versions]_vars

\* C25: a version number once assigned to an entity is never assigned again:
\* the numbers create_version and revert_to_version have returned for one
\* entity are strictly increasing.
C25_VersionNumbersNeverReused ==
    \A entity \in Entities :
        \A i, j \in DOMAIN hist[entity] : i < j => hist[entity][i] < hist[entity][j]

\* C26: create_version numbers the versions per entity: 1 for the first call,
\* then the stored maximum plus 1; get_version without a number returns that
\* version with the data just passed, get_version_history lists all versions
\* in ascending order, and the versions of other entities are untouched.
C26_CreateVersionNumbersPerEntity ==
    [][\A entity \in Entities, data \in VersionData :
        (last'.op = "create_version" /\ CreateVersion(entity, data)) =>
            LET before == get_version_history(store, entity[1], entity[2])
                after == get_version_history(store', entity[1], entity[2])
                new == [version |-> last'.version, data |-> data]
            IN  /\ last'.ok
                /\ hist[entity] = <<>> => last'.version = 1
                /\ last'.version = IF before = <<>> THEN 1
                                   ELSE before[Len(before)].version + 1
                /\ get_version(store', entity[1], entity[2], None)
                       = [raised |-> "none", found |-> TRUE,
                          version |-> last'.version, data |-> data]
                /\ after = Append(before, new)
                /\ \A i, j \in DOMAIN after : i < j => after[i].version < after[j].version
                /\ \A other \in Entities \ {entity} :
                       EntityVersions(store', other[1], other[2])
                           = EntityVersions(store, other[1], other[2])]_vars

C26_Witness ==
    /\ last.op = "create_version" /\ last.ok /\ last.version = 2
    /\ \E other \in Entities \ {last.id} :
           Len(get_version_history(store, other[1], other[2])) = 1
    /\ get_version(store, last.id[1], last.id[2], None).data = last.content
    /\ get_version(store, last.id[1], last.id[2], 1).data # last.content

(***************************************************************************)
(* src/services/persistence_service.py: PersistenceService.save_session,   *)
(* called by asyncio tasks, and src/main.py: SymbiosisMemory, which saves  *)
(* a session context as a version and as a session row.  A task can be     *)
(* suspended where it waits for write_lock; the statements under the lock  *)
(* are taken one at a time.  Here svc is the PersistenceService object     *)
(* (_initialized, write_lock), pc and loc belong to the tasks, and hist     *)
(* notes per session id the saves that completed.                          *)
(***************************************************************************)
MaxSaves == 3          \* save_session calls ever started

Tasks == {"t1", "t2"}
SessionIds == {"s", "t"}
NoSave == [session_id |-> "", data |-> EmptyDoc, version |-> 0, now |-> 0,
           exists |-> FALSE, caller |-> ""]
NoSaves == [saves |-> 0, data |-> EmptyDoc, first |-> 0, contexts |-> 0]

\* SELECT id FROM sessions WHERE id = ?
SessionRows(s, session_id) == {r \in s.sessions : r.id = session_id}

\* PersistenceService(db_path), no call made yet.
InitP ==
    /\ db = EmptyDB
    /\ committed = EmptyDB
    /\ last = NoCall
    /\ hist = [id \in SessionIds |-> NoSaves]
    /\ pc = [t \in Tasks |-> "idle"]
    /\ loc = [t \in Tasks |-> NoSave]
    /\ queue = <<>>
    /\ svc = [initialized |-> FALSE, write_lock |-> "free"]
    /\ qhist = NoQueueHist
    /\ env = NewEnv
    /\ store = NewStore

\* SymbiosisMemory(db_path): db_path is ":memory:" unless one is given.
InitM ==
    /\ db = EmptyDB
    /\ committed = EmptyDB
    /\ last = NoCall
    /\ hist = [id \in SessionIds |-> NoSaves]
    /\ pc = [t \in Tasks |-> "idle"]
    /\ loc = [t \in Tasks |-> NoSave]
    /\ queue = <<>>
    /\ svc = [initialized |-> FALSE, write_lock |-> "free"]
    /\ qhist = NoQueueHist
    /\ env = NewEnv
    /\ store \in {[NewStore EXCEPT !.path = db_path] : db_path \in {":memory:", "file"}}

Started == store.clock + Cardinality({t \in Tasks : pc[t] \in {"initialize", "acquire"}})

\* save_session(session_id, data) is called.
SaveSession(t, session_id, data) ==
    /\ pc[t] = "idle"
    /\ Started < MaxSaves
    /\ pc' = [pc EXCEPT ![t] = "initialize"]
    /\ loc' = [loc EXCEPT ![t] = [NoSave EXCEPT !.session_id = session_id,
                                                !.data = data,
                                                !.caller = "save_session"]]
    /\ UNCHANGED <<dbvars, last, hist, svcvars, env, store>>

\* await self.initialize(): under write_lock the tables are created once.
Initialize(t) ==
    /\ pc[t] = "initialize"
    /\ svc.write_lock = "free"
    /\ svc' = [svc EXCEPT !.initialized = TRUE]
    /\ store' = IF svc.initialized \/ store.path = ":memory:" THEN store
                ELSE [store EXCEPT !.tables = @ \cup {"sessions", "memory",
                                                      "daily_logs", "versions"}]
    /\ pc' = [pc EXCEPT ![t] = "acquire"]
    /\ UNCHANGED <<dbvars, last, hist, loc, queue, qhist, env>>

\* (bug variant: the statements are run without waiting for write_lock)
AcquireWithoutLock(t) ==
    /\ pc[t] = "acquire"
    /\ store' = [store EXCEPT !.clock = @ + 1]
    /\ loc' = [loc EXCEPT ![t].now = store.clock + 1]
    /\ pc' = [pc EXCEPT ![t] = "select"]
    /\ UNCHANGED <<dbvars, last, hist, svcvars, env>>

\* async with self.write_lock: connect, now = datetime.now().isoformat().
Acquire(t) ==
    /\ pc[t] = "acquire"
    /\ svc.write_lock = "free"
    /\ svc' = [svc EXCEPT !.write_lock = t]
    /\ store' = [store EXCEPT !.clock = @ + 1]
    /\ loc' = [loc EXCEPT ![t].now = store.clock + 1]
    /\ pc' = [pc EXCEPT ![t] = "select"]
    /\ UNCHANGED <<dbvars, last, hist, queue, qhist, env>>

SaveCall(t, raised) ==
    [NoCall EXCEPT !.op = loc[t].caller, !.id = loc[t].session_id,
                   !.version = loc[t].version, !.content = loc[t].data,
                   !.ok = raised = "none", !.raised = raised]

\* SELECT id FROM sessions WHERE id = ?; exists = cursor.fetchone().  A new
\* connection to ":memory:" has no table sessions.
Select(t) ==
    /\ pc[t] = "select"
    /\ \/ /\ store.path = ":memory:"
          /\ pc' = [pc EXCEPT ![t] = "idle"]
          /\ loc' = [loc EXCEPT ![t] = NoSave]
          /\ svc' = [svc EXCEPT !.write_lock = "free"]
          /\ last' = SaveCall(t, "OperationalError")
          /\ UNCHANGED <<dbvars, hist, queue, qhist, env, store>>
       \/ /\ store.path # ":memory:"
          /\ pc' = [pc EXCEPT ![t] = "write"]
          /\ loc' = [loc EXCEPT ![t].exists =
                        SessionRows(store, loc[t].session_id) # {}]
          /\ UNCHANGED <<dbvars, last, hist, svcvars, env, store>>

\* UPDATE sessions ... WHERE id = ? when the row exists, INSERT otherwise
\* (id is the PRIMARY KEY); commit, close, the lock is released, return.
Write(t) ==
    LET session_id == loc[t].session_id
        rows == SessionRows(store, session_id)
        row == [id |-> session_id, created_at |-> loc[t].now,
                updated_at |-> loc[t].now, data |-> dumps(loc[t].data)]
        raised == IF ~loc[t].exists /\ rows # {} THEN "IntegrityError" ELSE "none"
    IN  /\ pc[t] = "write"
        /\ store' = IF loc[t].exists
                    THEN [store EXCEPT !.sessions =
                             (@ \ rows) \cup {[r EXCEPT !.updated_at = row.updated_at,
                                                        !.data = row.data] : r \in rows}]
                    ELSE IF rows # {} THEN store
                    ELSE [store EXCEPT !.sessions = @ \cup {row}]
        /\ hist' = IF raised # "none" THEN hist
                   ELSE [hist EXCEPT ![session_id].saves = @ + 1,
                                     ![session_id].data = loc[t].data,
                                     ![session_id].first =
                                         IF hist[session_id].saves = 0
                                         THEN loc[t].now ELSE @]
        /\ svc' = [svc EXCEPT !.write_lock = "free"]
        /\ pc' = [pc EXCEPT ![t] = "idle"]
        /\ loc' = [loc EXCEPT ![t] = NoSave]
        /\ last' = SaveCall(t, raised)
        /\ UNCHANGED <<dbvars, queue, qhist, env>>

NextP ==
    \/ \E t \in Tasks, session_id \in SessionIds, data \in VersionData :
           SaveSession(t, session_id, data)
    \/ \E t \in Tasks : Initialize(t)
    \/ \E t \in Tasks : Acquire(t)
    \/ \E t \in Tasks : Select(t)
    \/ \E t \in Tasks : Write(t)

SpecP == InitP /\ [][NextP]_vars

\* SymbiosisMemory.load_session_context: the data of the newest version of
\* ("session", session_id), None (found FALSE) when there is none.
load_session_context(s, session_id) ==
    LET version == get_version(s, "session", session_id, None)
    IN  [raised |-> version.raised, found |-> version.found, data |-> version.data]

\* SymbiosisMemory.save_session_context(session_id, context): initialize,
\* versioning.create_version("session", session_id, context), then
\* persistence.save_session(session_id, context) and the return of the
\* version number.
SaveSessionContext(t, session_id, context) ==
    LET r == create_version(store, "session", session_id, context)
    IN  /\ pc[t] = "idle"
        /\ Started < MaxSaves
        /\ store.seq.versions < MaxEntityVersions
        /\ store' = r.store
        /\ IF r.raised = "none"
           THEN /\ pc' = [pc EXCEPT ![t] = "initialize"]
                /\ loc' = [loc EXCEPT ![t] = [NoSave EXCEPT
                                                 !.session_id = session_id,
                                                 !.data = context,
                                                 !.version = r.version,
                                                 !.caller = "save_session_context"]]
                /\ hist' = [hist EXCEPT ![session_id].contexts = @ + 1]
                /\ last' = last
           ELSE /\ last' = [NoCall EXCEPT !.op = "save_session_context",
                                          !.id = session_id, !.content = context,
                                          !.raised = r.raised]
                /\ UNCHANGED <<pc, loc, hist>>
        /\ UNCHANGED <<dbvars, svcvars, env>>

NextM ==
    \/ NextP
    \/ \E t \in Tasks, session_id \in SessionIds, context \in VersionData :
           SaveSessionContext(t, session_id, context)

SpecM == InitM /\ [][NextM]_vars

(***************************************************************************)
(* Properties of SymbiosisMemory (SpecM) and of save_session (SpecP).      *)
(***************************************************************************)
\* C27: the n-th save_session_context call for a session id returns version
\* n, load_session_context then returns the context of the most recent
\* save_session_context for the id (None for an id never saved), and saves
\* to other ids change neither.
C27_SessionContextRoundTrip ==
    /\ [](\A id \in SessionIds :
             hist[id].contexts = 0 =>
                 load_session_context(store, id)
                     = [raised |-> "none", found |-> FALSE, data |-> <<>>])
    /\ [][\A t \in Tasks, session_id \in SessionIds, context \in VersionData :
            SaveSessionContext(t, session_id, context) =>
                /\ pc'[t] = "initialize"
                /\ loc'[t].version = hist[session_id].contexts + 1
                /\ load_session_context(store', session_id)
                       = [raised |-> "none", found |-> TRUE, data |-> context]
                /\ \A other \in SessionIds \ {session_id} :
                       load_session_context(store', other)
                           = load_session_context(store, other)]_vars
    /\ [](last.op = "save_session_context" => last.ok)

\* C28: save_session is an upsert serialized by write_lock: the table
\* sessions holds exactly one row per session id that was saved, with the
\* data of the last completed save for the id and the created_at of the
\* first; no save fails.
C28_SaveSessionUpserts ==
    /\ \A id \in SessionIds :
           /\ Cardinality(SessionRows(store, id)) = IF hist[id].saves > 0 THEN 1 ELSE 0
           /\ \A r \in SessionRows(store, id) :
                  /\ json_loads(r.data) = hist[id].data
                  /\ r.created_at = hist[id].first
                  /\ r.created_at <= r.updated_at
    /\ last.op = "save_session" => last.ok
    /\ svc.write_lock # "free" =>
           \A t \in Tasks : pc[t] \in {"select", "write"} <=> svc.write_lock = t

C28_Witness ==
    /\ hist["s"].saves = 1
    /\ \E t \in Tasks :
           /\ svc.write_lock = t
           /\ pc[t] = "write" /\ loc[t].session_id = "s" /\ loc[t].exists
           /\ loc[t].data # hist["s"].data
    /\ \E t \in Tasks : pc[t] = "acquire" /\ loc[t].session_id = "t"

(***************************************************************************)
(* src/services/backup_service.py: BackupService with a database file.     *)
(* A backup is a copy of the file in backup_dir, named after the second it *)
(* is made in; shutil.copy2 gives the copy the modification time of its    *)
(* source.  The backups are ordered by modification time wherever the      *)
(* service needs an order; files of equal time come in directory order.    *)
(* env.stamp is the clock in seconds, env.writes the latest modification   *)
(* time handed out, env.mtime that of the database file.                   *)
(***************************************************************************)
MaxSeconds == 3        \* seconds the clock runs through
max_backups == 2       \* self.max_backups

InitF ==
    /\ db = EmptyDB
    /\ committed = EmptyDB
    /\ last = NoCall
    /\ hist = <<>>
    /\ pc = <<>>
    /\ loc = <<>>
    /\ queue = <<>>
    /\ svc = NewService
    /\ qhist = NoQueueHist
    /\ env = [files |-> <<>>, stamp |-> 1, writes |-> 1, mtime |-> 1]
    /\ store = NewStore

\* The sequences that hold every element of S once.
RECURSIVE Orders(_)
Orders(S) ==
    IF S = {} THEN {<<>>}
    ELSE UNION {{<<p>> \o rest : rest \in Orders(S \ {p})} : p \in S}

\* sorted(self.backup_dir.glob("backup_*"), key=lambda p: p.stat().st_mtime):
\* every order the sort can return.
SortedBackups(files) ==
    {order \in Orders(DOMAIN files) :
        \A i, j \in DOMAIN order : i < j => files[order[i]].mtime <= files[order[j]].mtime}

\* _cleanup_old_backups: while len(backups) > self.max_backups: pop(0).unlink()
cleanup_old_files(files, backups) ==
    LET excess == IF Len(backups) > max_backups THEN Len(backups) - max_backups ELSE 0
        left == {backups[i] : i \in (excess + 1)..Len(backups)}
    IN  [p \in left |-> files[p]]

\* The second a backup file was made in, from its name.
SecondOf(path) == path[8]

\* The clock reaches the next second.
Tick ==
    /\ env.stamp < MaxSeconds
    /\ env' = [env EXCEPT !.stamp = @ + 1]
    /\ UNCHANGED <<dbvars, last, hist, threadvars, svcvars, store>>

\* A service writes to the database file.
DatabaseWrite ==
    /\ env.writes < MaxWrites + 1
    /\ store' = [store EXCEPT !.clock = @ + 1]
    /\ env' = [env EXCEPT !.writes = @ + 1, !.mtime = env.writes + 1]
    /\ last' = [NoCall EXCEPT !.op = "write", !.ok = TRUE]
    /\ UNCHANGED <<dbvars, hist, threadvars, svcvars>>

\* create_backup(): copy2 to backup_<timestamp>.db, then _cleanup_old_backups.
CreateFileBackup(copy_fails) ==
    /\ IF copy_fails
       THEN /\ env' = env
            /\ last' = [NoCall EXCEPT !.op = "create_backup", !.version = env.stamp]
       ELSE \E backups \in SortedBackups(WriteFile(env, BackupPath(env.stamp),
                                                   [data |-> store, mtime |-> env.mtime]).files) :
                /\ env' = [env EXCEPT !.files =
                              cleanup_old_files(WriteFile(env, BackupPath(env.stamp),
                                                          [data |-> store,
                                                           mtime |-> env.mtime]).files,
                                                backups)]
                /\ last' = [NoCall EXCEPT !.op = "create_backup", !.version = env.stamp,
                                          !.ok = TRUE]
    /\ UNCHANGED <<dbvars, hist, threadvars, svcvars, store>>

\* restore_backup(None): the last of the sorted backups is copied over the
\* database file (copy2: content and modification time).
RestoreLatestBackup ==
    /\ IF DOMAIN env.files = {}
       THEN /\ UNCHANGED <<env, store>>
            /\ last' = [NoCall EXCEPT !.op = "restore_backup"]
       ELSE \E backups \in SortedBackups(env.files) :
                /\ store' = env.files[backups[Len(backups)]].data
                /\ env' = [env EXCEPT !.mtime = env.files[backups[Len(backups)]].mtime]
                /\ last' = [NoCall EXCEPT !.op = "restore_backup",
                                          !.version = SecondOf(backups[Len(backups)]),
                                          !.ok = TRUE]
    /\ UNCHANGED <<dbvars, hist, threadvars, svcvars>>

\* restore_backup(backup_path): copy2 raises for a file that is not there.
RestoreFileBackup(backup_path) ==
    /\ IF backup_path \notin DOMAIN env.files
       THEN /\ UNCHANGED <<env, store>>
            /\ last' = [NoCall EXCEPT !.op = "restore_backup",
                                      !.version = SecondOf(backup_path)]
       ELSE /\ store' = env.files[backup_path].data
            /\ env' = [env EXCEPT !.mtime = env.files[backup_path].mtime]
            /\ last' = [NoCall EXCEPT !.op = "restore_backup",
                                      !.version = SecondOf(backup_path), !.ok = TRUE]
    /\ UNCHANGED <<dbvars, hist, threadvars, svcvars>>

NextF ==
    \/ Tick
    \/ DatabaseWrite
    \/ \E copy_fails \in BOOLEAN : CreateFileBackup(copy_fails)
    \/ RestoreLatestBackup
    \/ \E stamp \in 1..MaxSeconds : RestoreFileBackup(BackupPath(stamp))

SpecF == InitF /\ [][NextF]_vars

\* C35: after every successful create_backup the backup directory holds at
\* most max_backups files, the files removed are older than every file kept,
\* and the file just created is kept, is the one list_backups reports last
\* and the one restore_backup(None) selects.
C35_NewestBackupKeptAndLast ==
    [][(last'.op = "create_backup" /\ last'.ok /\ CreateFileBackup(FALSE)) =>
          LET created == BackupPath(env.stamp)
              removed == (DOMAIN env.files \cup {created}) \ DOMAIN env'.files
          IN  /\ Cardinality(DOMAIN env'.files) <= max_backups
              /\ \A p \in removed, q \in DOMAIN env'.files : SecondOf(p) < SecondOf(q)
              /\ created \in DOMAIN env'.files
              /\ \A backups \in SortedBackups(env'.files) :
                     backups[Len(backups)] = created]_vars

=============================================================================
